---- MODULE Spec2Model ----
(***************************************************************************)
(* A model of dbstuff: the B+-tree of dbstuff/memory.py and                *)
(* dbstuff/disk_btree.py, and the Pager of dbstuff/pager.py with the LRU    *)
(* cache of dbstuff/cache.py.                                               *)
(*                                                                         *)
(* The tree is a heap of node objects.  Python object identity is opaque,   *)
(* so node identifiers are renumbered in preorder after every operation    *)
(* (Canon); unreachable nodes are garbage and are dropped.                 *)
(***************************************************************************)
EXTENDS Integers, Sequences, FiniteSets, TLC

VARIABLES
    impl,       \* "memory" (memory.py) or "disk" (disk_btree.py)
    ORDER,      \* the tree's order
    heap,       \* node id -> node object
    root,       \* BPlusTree.root
    raised,     \* the exception the last operation raised, or "none"
    lastOp,     \* the last operation and the structural steps it took
    shadow,     \* key -> value of its most recent put, None once deleted
    file,       \* the Pager's file: a sequence of pages, page p at index p + 1
    next_free_pageno,   \* Pager.next_free_pageno
    lru,        \* LRUCache.lru: sequence of <<key, value>>, least recent first
    grave,      \* LRUCache.grave: the weak-value graveyard, key -> value
    pagerOp,    \* the last Pager operation, its argument and its result
    allocated,       \* the pages alloc_page returned and free_page has not taken back
    hits,       \* LRUCache.hits
    misses,     \* LRUCache.misses
    resurrections,  \* LRUCache.resurrections
    cacheOp,    \* the last LRUCache call, its result, and the order of last use
    read_lock,  \* ReadWriteLock._read_lock: the thread that holds it, or None
    write_lock, \* ReadWriteLock._write_lock: the thread that holds its lock, or None
    reader_count,   \* ReadWriteLock._reader_count
    waiters,    \* the threads blocked in _write_lock.wait(), first to be notified first
    threads,    \* thread -> where it is in its call, and its local variables
    codec       \* the last call on a page object (Page, OverflowPage), its
                \* arguments and its result

treeVars == <<impl, ORDER, heap, root, raised, lastOp, shadow>>
pagerVars == <<file, next_free_pageno, lru, grave, pagerOp, allocated>>
counterVars == <<hits, misses, resurrections, cacheOp>>
lockVars == <<read_lock, write_lock, reader_count, waiters, threads>>
vars == <<impl, ORDER, heap, root, raised, lastOp, shadow,
          file, next_free_pageno, lru, grave, pagerOp, allocated,
          hits, misses, resurrections, cacheOp,
          read_lock, write_lock, reader_count, waiters, threads, codec>>

(***************************************************************************)
(* Bounds of the exploration.                                               *)
(***************************************************************************)
\* keys 1..MaxKeyOdd are used with the odd order
MaxKeyOdd == 6
\* keys 1..MaxKeyEven are used with the even order of disk_btree
MaxKeyEven == 10
\* keys 1..MaxKeyMemory are used with memory.py's ORDER
MaxKeyMemory == 8

(***************************************************************************)
(* Constants of the program.                                                *)
(***************************************************************************)
None == 0
DONE == "DONE"
REBALANCE == "REBALANCE"
\* memory.py's ORDER
MEMORY_ORDER == 8
\* the orders disk_btree.BPlusTree is constructed with: one odd, one even
DiskOrders == {3, 4}

MAX_KEYS == ORDER - 1

\* memory.py: MAX_KEYS // 2; disk_btree.py: ceil(MAX_KEYS / 2)
MIN_KEYS == IF impl = "memory" THEN MAX_KEYS \div 2 ELSE (MAX_KEYS + 1) \div 2

(***************************************************************************)
(* List helpers (Python list operations, 0-based indexes).                  *)
(***************************************************************************)
\* bind a computed value to a name: With(v, LAMBDA x : e) is e with x = v
With(v, F(_)) == F(v)

\* list.insert(i, x)
ListInsert(s, i, x) == SubSeq(s, 1, i) \o <<x>> \o SubSeq(s, i + 1, Len(s))

\* del list[i]  /  list.pop(i)
ListRemove(s, i) == SubSeq(s, 1, i) \o SubSeq(s, i + 2, Len(s))

\* util.split_list: (x[:median], x[median:]) with median = len(x) // 2
split_list(x) ==
    LET median == Len(x) \div 2
    IN  <<SubSeq(x, 1, median), SubSeq(x, median + 1, Len(x))>>

\* bisect.bisect_right on a list of keys: the binary search itself
RECURSIVE bisect_right_loop(_, _, _, _)
bisect_right_loop(a, x, lo, hi) ==
    IF lo < hi
    THEN LET mid == (lo + hi) \div 2
         IN  IF x < a[mid + 1]
             THEN bisect_right_loop(a, x, lo, mid)
             ELSE bisect_right_loop(a, x, mid + 1, hi)
    ELSE lo

bisect_right(a, x) == bisect_right_loop(a, x, 0, Len(a))

\* bisect.bisect_left on a list of entries; Entry compares on the key only
RECURSIVE bisect_left_loop(_, _, _, _)
bisect_left_loop(a, x, lo, hi) ==
    IF lo < hi
    THEN LET mid == (lo + hi) \div 2
         IN  IF a[mid + 1].key < x
             THEN bisect_left_loop(a, x, mid + 1, hi)
             ELSE bisect_left_loop(a, x, lo, mid)
    ELSE lo

bisect_left(a, x) == bisect_left_loop(a, x, 0, Len(a))

\* `Entry(key, _) in entries`: equality is on the key alone
EntryIn(entries, key) == \E j \in 1..Len(entries) : entries[j].key = key

\* entries.index(Entry(key, _)): the first position that compares equal
EntryIndex(entries, key) ==
    CHOOSE j \in 1..Len(entries) :
        /\ entries[j].key = key
        /\ \A m \in 1..(j - 1) : entries[m].key # key

(***************************************************************************)
(* Node objects.                                                            *)
(***************************************************************************)
InteriorNode(keys, children) ==
    [leaf |-> FALSE, keys |-> keys, children |-> children,
     entries |-> <<>>, prev_leaf |-> None, next_leaf |-> None]

LeafNode(prev_leaf, next_leaf) ==
    [leaf |-> TRUE, keys |-> <<>>, children |-> <<>>,
     entries |-> <<>>, prev_leaf |-> prev_leaf, next_leaf |-> next_leaf]

Entry(key, value) == [key |-> key, value |-> value]

\* a fresh object identity
NewId(h) == 1 + Cardinality(DOMAIN h)

Alloc(h, node) == [n \in (DOMAIN h) \cup {NewId(h)} |->
                      IF n \in DOMAIN h THEN h[n] ELSE node]

\* the outcome of a node method: the heap, the status returned (or the
\* exception raised) and the structural steps taken
Out(h, status, ev) == [heap |-> h, status |-> status, ev |-> ev]

IsRaise(status) == status \in {"IndexError", "AssertionError"}

(***************************************************************************)
(* LeafNode.                                                                *)
(***************************************************************************)
\* LeafNode.split that does not set the back link of the old next leaf
LeafSplit_NoBackLink(h, n) ==
    LET nxt == h[n].next_leaf
        r == NewId(h)
        h1 == Alloc(h, LeafNode(n, nxt))
        parts == split_list(h[n].entries)
        h3 == [h1 EXCEPT ![n].next_leaf = r,
                         ![n].entries = parts[1],
                         ![r].entries = parts[2]]
    IN  [heap |-> h3, status |-> DONE, ev |-> {"leaf_split"},
         median |-> parts[2][1].key, right |-> r]

\* LeafNode.split
LeafSplit(h, n) ==
    LET nxt == h[n].next_leaf
        r == NewId(h)
        h1 == Alloc(h, LeafNode(n, nxt))
        h2 == IF nxt # None THEN [h1 EXCEPT ![nxt].prev_leaf = r] ELSE h1
        parts == split_list(h[n].entries)
        h3 == [h2 EXCEPT ![n].next_leaf = r,
                         ![n].entries = parts[1],
                         ![r].entries = parts[2]]
    IN  IF Len(parts[2]) = 0
        THEN [heap |-> h3, status |-> "IndexError", ev |-> {}]
        ELSE [heap |-> h3, status |-> DONE, ev |-> {"leaf_split"},
              median |-> parts[2][1].key, right |-> r]

\* LeafNode.insert that leaves the old entry in place when the key is present
LeafInsert_KeepsOldEntry(h, n, key, value) ==
    LET entries == h[n].entries
        i == bisect_left(entries, key)
        h1 == IF EntryIn(entries, key)
              THEN h
              ELSE [h EXCEPT ![n].entries = ListInsert(@, i, Entry(key, value))]
    IN  IF Len(h1[n].entries) > MAX_KEYS
        THEN Out(h1, REBALANCE, {})
        ELSE Out(h1, DONE, {})

\* LeafNode.insert
LeafInsert(h, n, key, value) ==
    LET entries == h[n].entries
        e == Entry(key, value)
        i == bisect_left(entries, key)
        h1 == IF EntryIn(entries, key)
              THEN [h EXCEPT ![n].entries[i + 1] = e]
              ELSE [h EXCEPT ![n].entries = ListInsert(@, i, e)]
    IN  IF EntryIn(entries, key) /\ i >= Len(entries)
        THEN Out(h, "IndexError", {})
        ELSE IF Len(h1[n].entries) > MAX_KEYS
             THEN Out(h1, REBALANCE, {})
             ELSE Out(h1, DONE, {})

\* LeafNode.delete that never signals an underflow
LeafDelete_NeverRebalance(h, n, key) ==
    LET entries == h[n].entries
        i == bisect_left(entries, key)
    IN  IF i >= Len(entries)
        THEN Out(h, "IndexError", {})
        ELSE IF entries[i + 1].key = key
             THEN Out([h EXCEPT ![n].entries = ListRemove(@, i)], DONE, {})
             ELSE Out(h, DONE, {})

\* LeafNode.delete
LeafDelete(h, n, key) ==
    LET entries == h[n].entries
        i == bisect_left(entries, key)
    IN  IF i >= Len(entries)
        THEN Out(h, "IndexError", {})       \* self.entries[i] past the end
        ELSE IF entries[i + 1].key = key
             THEN LET h1 == [h EXCEPT ![n].entries = ListRemove(@, i)]
                  IN  IF Len(h1[n].entries) < MIN_KEYS
                      THEN Out(h1, REBALANCE, {})
                      ELSE Out(h1, DONE, {})
             ELSE Out(h, DONE, {})

\* LeafNode.borrow_right
LeafBorrowRight(h, self, median, right_sib) ==
    IF h[self].next_leaf # right_sib \/ h[right_sib].prev_leaf # self
    THEN Out(h, "AssertionError", {})
    ELSE LET e == h[right_sib].entries[1]
             h1 == [h EXCEPT ![right_sib].entries = ListRemove(@, 0),
                             ![self].entries = Append(@, e)]
         IN  IF Len(h1[right_sib].entries) = 0
             THEN Out(h1, "IndexError", {})
             ELSE [heap |-> h1, status |-> DONE, ev |-> {"leaf_borrow_right"},
                   key |-> h1[right_sib].entries[1].key]

\* LeafNode.borrow_left that hands the old separator back to the parent
LeafBorrowLeft_OldSeparator(h, self, median, left_sib) ==
    LET e == h[left_sib].entries[Len(h[left_sib].entries)]
        h1 == [h EXCEPT ![left_sib].entries = SubSeq(@, 1, Len(@) - 1),
                        ![self].entries = <<e>> \o @]
    IN  [heap |-> h1, status |-> DONE, ev |-> {"leaf_borrow_left"},
         key |-> median]

\* LeafNode.borrow_left
LeafBorrowLeft(h, self, median, left_sib) ==
    IF h[left_sib].next_leaf # self \/ h[self].prev_leaf # left_sib
    THEN Out(h, "AssertionError", {})
    ELSE LET e == h[left_sib].entries[Len(h[left_sib].entries)]
             h1 == [h EXCEPT ![left_sib].entries = SubSeq(@, 1, Len(@) - 1),
                             ![self].entries = <<e>> \o @]
         IN  [heap |-> h1, status |-> DONE, ev |-> {"leaf_borrow_left"},
              key |-> h1[self].entries[1].key]

\* LeafNode.merge that does not unlink the right sibling from the chain
LeafMerge_KeepsLinks(h, self, median, right_sib) ==
    [heap |-> [h EXCEPT ![self].entries = @ \o h[right_sib].entries],
     status |-> DONE, ev |-> {"leaf_merge"}, node |-> self]

\* LeafNode.merge
LeafMerge(h, self, median, right_sib) ==
    IF h[self].next_leaf # right_sib \/ h[right_sib].prev_leaf # self
    THEN Out(h, "AssertionError", {})
    ELSE LET nxt == h[right_sib].next_leaf
             h1 == [h EXCEPT ![self].entries = @ \o h[right_sib].entries,
                             ![self].next_leaf = nxt]
             h2 == IF nxt # None THEN [h1 EXCEPT ![nxt].prev_leaf = self] ELSE h1
         IN  [heap |-> h2, status |-> DONE, ev |-> {"leaf_merge"}, node |-> self]

(***************************************************************************)
(* InteriorNode.                                                            *)
(***************************************************************************)
\* is_minimal that holds below MIN_KEYS only
is_minimal_Strict(h, n) ==
    IF h[n].leaf THEN Len(h[n].entries) < MIN_KEYS
                 ELSE Len(h[n].keys) < MIN_KEYS

\* is_minimal of either node class
is_minimal(h, n) ==
    IF h[n].leaf THEN Len(h[n].entries) <= MIN_KEYS
                 ELSE Len(h[n].keys) <= MIN_KEYS

\* the median index of memory.py used by both classes
MedianIndex_MemoryFormula(len) == len \div 2 - 1

\* the index InteriorNode.split pops the median from.
\* memory.py: len(keys) // 2 - 1; disk_btree.py: ceil(len(keys) / 2 - 1)
MedianIndex(len) ==
    IF impl = "memory" THEN len \div 2 - 1 ELSE (len - 1) \div 2

\* InteriorNode.split
InteriorSplit(h, n) ==
    LET keys == h[n].keys
        idx == MedianIndex(Len(keys))
        kparts == split_list(ListRemove(keys, idx))
        cparts == split_list(h[n].children)
        r == NewId(h)
        h1 == Alloc(h, InteriorNode(kparts[2], cparts[2]))
        h2 == [h1 EXCEPT ![n].keys = kparts[1], ![n].children = cparts[1]]
    IN  IF impl = "disk" /\ Len(keys) # MAX_KEYS + 1
        THEN Out(h, "AssertionError", {})
        ELSE IF impl = "disk" /\ (\/ Len(kparts[1]) + 1 # Len(cparts[1])
                                  \/ Len(kparts[2]) + 1 # Len(cparts[2]))
             THEN Out(h2, "AssertionError", {})
             ELSE [heap |-> h2, status |-> DONE, ev |-> {"interior_split"},
                   median |-> keys[idx + 1], right |-> r]

\* child.split() for either node class
NodeSplit(h, n) == IF h[n].leaf THEN LeafSplit(h, n) ELSE InteriorSplit(h, n)

\* InteriorNode.insert (LeafNode.insert at the leaves)
RECURSIVE NodeInsert(_, _, _, _)
NodeInsert(h, n, key, value) ==
    IF h[n].leaf
    THEN LeafInsert(h, n, key, value)
    ELSE LET i == bisect_right(h[n].keys, key)
             child == h[n].children[i + 1]
         IN  With(NodeInsert(h, child, key, value), LAMBDA result :
             IF result.status = REBALANCE
             THEN With(NodeSplit(result.heap, child), LAMBDA s :
                  IF IsRaise(s.status)
                  THEN Out(s.heap, s.status, result.ev \cup s.ev)
                  ELSE With([s.heap EXCEPT
                               ![n].keys = ListInsert(@, i, s.median),
                               ![n].children = ListInsert(@, i + 1, s.right)],
                            LAMBDA h1 :
                       IF Len(h1[n].keys) > MAX_KEYS
                       THEN Out(h1, REBALANCE, result.ev \cup s.ev)
                       ELSE Out(h1, DONE, result.ev \cup s.ev)))
             ELSE IF IsRaise(result.status)
                  THEN result
                  ELSE Out(result.heap, DONE, result.ev))

\* InteriorNode.borrow_right
InteriorBorrowRight(h, self, median, right_sib) ==
    IF is_minimal(h, right_sib)
    THEN Out(h, "AssertionError", {})
    ELSE LET borrowed_child == h[right_sib].children[1]
             new_median == h[right_sib].keys[1]
             h1 == [h EXCEPT ![right_sib].children = ListRemove(@, 0),
                             ![right_sib].keys = ListRemove(@, 0),
                             ![self].keys = Append(@, median),
                             ![self].children = Append(@, borrowed_child)]
         IN  [heap |-> h1, status |-> DONE, ev |-> {"interior_borrow_right"},
              key |-> new_median]

\* InteriorNode.borrow_left
InteriorBorrowLeft(h, self, median, left_sib) ==
    IF is_minimal(h, left_sib)
    THEN Out(h, "AssertionError", {})
    ELSE LET borrowed_child == h[left_sib].children[Len(h[left_sib].children)]
             new_median == h[left_sib].keys[Len(h[left_sib].keys)]
             h1 == [h EXCEPT ![left_sib].children = SubSeq(@, 1, Len(@) - 1),
                             ![left_sib].keys = SubSeq(@, 1, Len(@) - 1),
                             ![self].keys = <<median>> \o @,
                             ![self].children = <<borrowed_child>> \o @]
         IN  [heap |-> h1, status |-> DONE, ev |-> {"interior_borrow_left"},
              key |-> new_median]

\* InteriorNode.merge that appends the sibling itself instead of extending
\* with the sibling's children
InteriorMerge_AppendsSibling(h, self, median, right_sib) ==
    LET h1 == [h EXCEPT
                 ![self].keys = Append(@, median),
                 ![self].children = Append(@, right_sib)]
    IN  [heap |-> h1, status |-> DONE, ev |-> {"interior_merge"}, node |-> self]

\* InteriorNode.merge
InteriorMerge(h, self, median, right_sib) ==
    IF ~is_minimal(h, right_sib)
    THEN Out(h, "AssertionError", {})
    ELSE LET h1 == [h EXCEPT
                      ![self].keys = Append(@, median) \o h[right_sib].keys,
                      ![self].children = @ \o h[right_sib].children]
         IN  [heap |-> h1, status |-> DONE, ev |-> {"interior_merge"}, node |-> self]

\* child.borrow_right / borrow_left / merge for either node class
borrow_right(h, self, median, right_sib) ==
    IF h[self].leaf THEN LeafBorrowRight(h, self, median, right_sib)
                    ELSE InteriorBorrowRight(h, self, median, right_sib)

borrow_left(h, self, median, left_sib) ==
    IF h[self].leaf THEN LeafBorrowLeft(h, self, median, left_sib)
                    ELSE InteriorBorrowLeft(h, self, median, left_sib)

merge(h, self, median, right_sib) ==
    IF h[self].leaf THEN LeafMerge(h, self, median, right_sib)
                    ELSE InteriorMerge(h, self, median, right_sib)

\* InteriorNode.rebalance_after_delete: rebalance child i (0-based)
rebalance_after_delete(h, n, i) ==
    LET keys == h[n].keys
        children == h[n].children
        child == children[i + 1]
        right_sib == IF i < Len(keys) THEN children[i + 2] ELSE None
        left_sib == IF i > 0 THEN children[i] ELSE None
        repaired ==
             IF right_sib # None /\ ~is_minimal(h, right_sib)
             THEN With(borrow_right(h, child, keys[i + 1], right_sib), LAMBDA b :
                      IF IsRaise(b.status) THEN b
                      ELSE Out([b.heap EXCEPT ![n].keys[i + 1] = b.key],
                               DONE, b.ev))
             ELSE IF left_sib # None /\ ~is_minimal(h, left_sib)
             THEN With(borrow_left(h, child, keys[i], left_sib), LAMBDA b :
                      IF IsRaise(b.status) THEN b
                      ELSE Out([b.heap EXCEPT ![n].keys[i] = b.key],
                               DONE, b.ev))
             ELSE IF right_sib # None
             THEN With(merge(h, child, keys[i + 1], right_sib), LAMBDA m :
                      IF IsRaise(m.status) THEN m
                      ELSE Out([m.heap EXCEPT
                                  ![n].children =
                                      ListRemove([@ EXCEPT ![i + 1] = m.node], i + 1),
                                  ![n].keys = ListRemove(@, i)],
                               DONE, m.ev))
             ELSE IF left_sib # None
             THEN With(merge(h, left_sib, keys[i], child), LAMBDA m :
                      IF IsRaise(m.status) THEN m
                      ELSE Out([m.heap EXCEPT
                                  ![n].children =
                                      ListRemove([@ EXCEPT ![i] = m.node], i),
                                  ![n].keys = ListRemove(@, i - 1)],
                               DONE, m.ev))
             ELSE IF impl = "disk" /\ n # root
                  THEN Out(h, "AssertionError", {})
                  ELSE Out(h, DONE, {"no_sibling"})
    IN  IF impl = "disk" /\ ~is_minimal(h, child)
        THEN Out(h, "AssertionError", {})
        ELSE With(repaired, LAMBDA r :
                 IF IsRaise(r.status) THEN r
                 ELSE IF Len(r.heap[n].keys) # Len(r.heap[n].children) - 1
                      THEN Out(r.heap, "AssertionError", r.ev)
                      ELSE r)

\* InteriorNode.delete (LeafNode.delete at the leaves)
RECURSIVE NodeDelete(_, _, _)
NodeDelete(h, n, key) ==
    IF h[n].leaf
    THEN LeafDelete(h, n, key)
    ELSE LET i == bisect_right(h[n].keys, key)
             child == h[n].children[i + 1]
         IN  With(NodeDelete(h, child, key), LAMBDA result :
             IF result.status = REBALANCE
             THEN With(rebalance_after_delete(result.heap, n, i), LAMBDA r :
                  IF IsRaise(r.status)
                  THEN Out(r.heap, r.status, result.ev \cup r.ev)
                  ELSE IF Len(r.heap[n].keys) < MIN_KEYS
                       THEN Out(r.heap, REBALANCE, result.ev \cup r.ev)
                       ELSE Out(r.heap, DONE, result.ev \cup r.ev))
             ELSE IF IsRaise(result.status)
                  THEN result
                  ELSE Out(result.heap, DONE, result.ev))

\* InteriorNode.find_leaf / LeafNode.find_leaf
RECURSIVE find_leaf(_, _, _)
find_leaf(h, n, key) ==
    IF h[n].leaf
    THEN n
    ELSE LET keys == h[n].keys
             above == {i \in 1..Len(keys) : key < keys[i]}
             \* ii = -1 unless some key is greater: then the first such index
             ii == IF above = {}
                   THEN Len(h[n].children)
                   ELSE CHOOSE i \in above : \A j \in above : i <= j
         IN  find_leaf(h, h[n].children[ii], key)

(***************************************************************************)
(* BPlusTree.                                                               *)
(***************************************************************************)
\* BPlusTree.__getitem__ on a given tree
GetItem(h, rt, key) ==
    LET leaf == find_leaf(h, rt, key)
        entries == h[leaf].entries
    IN  IF EntryIn(entries, key)
        THEN entries[EntryIndex(entries, key)].value
        ELSE None

\* BPlusTree.__contains__
Contains(h, rt, key) == EntryIn(h[find_leaf(h, rt, key)].entries, key)

\* BPlusTree.first_leaf / last_leaf
RECURSIVE first_leaf_from(_, _)
first_leaf_from(h, n) ==
    IF h[n].leaf THEN n ELSE first_leaf_from(h, h[n].children[1])

RECURSIVE last_leaf_from(_, _)
last_leaf_from(h, n) ==
    IF h[n].leaf THEN n ELSE last_leaf_from(h, h[n].children[Len(h[n].children)])

first_leaf == first_leaf_from(heap, root)
last_leaf == last_leaf_from(heap, root)

\* BPlusTree.__setitem__: the heap, the root and the outcome
SetItem(h, rt, key, value) ==
    With(NodeInsert(h, rt, key, value), LAMBDA result :
        IF result.status = REBALANCE
        THEN With(NodeSplit(result.heap, rt), LAMBDA s :
                 IF IsRaise(s.status)
                 THEN [heap |-> s.heap, root |-> rt, status |-> s.status,
                       ev |-> result.ev \cup s.ev]
                 ELSE [heap |-> Alloc(s.heap, InteriorNode(<<s.median>>, <<rt, s.right>>)),
                       root |-> NewId(s.heap), status |-> DONE,
                       ev |-> result.ev \cup s.ev \cup {"root_split"}])
        ELSE [heap |-> result.heap, root |-> rt, status |-> result.status,
              ev |-> result.ev])

\* a __delitem__ that never replaces the root
CollapseTest_Never(h, rt) == FALSE

\* the test BPlusTree.__delitem__ makes before it replaces the root
CollapseTest(h, rt) ==
    Len(h[rt].keys) = 0 /\ ~h[h[rt].children[1]].leaf

\* BPlusTree.__delitem__
DelItem(h, rt, key) ==
    With(NodeDelete(h, rt, key), LAMBDA result :
        IF IsRaise(result.status)
        THEN [heap |-> result.heap, root |-> rt, status |-> result.status,
              ev |-> result.ev]
        ELSE IF CollapseTest(result.heap, rt)
             THEN [heap |-> result.heap, root |-> result.heap[rt].children[1],
                   status |-> DONE, ev |-> result.ev \cup {"root_collapse"}]
             ELSE [heap |-> result.heap, root |-> rt, status |-> DONE,
                   ev |-> result.ev])

(***************************************************************************)
(* Object identities: renumber the live objects in preorder, drop garbage.  *)
(***************************************************************************)
RECURSIVE PreOrder(_, _)
RECURSIVE PreOrderAll(_, _)
PreOrder(h, n) ==
    IF h[n].leaf THEN <<n>> ELSE <<n>> \o PreOrderAll(h, h[n].children)
PreOrderAll(h, cs) ==
    IF cs = <<>> THEN <<>>
    ELSE PreOrder(h, Head(cs)) \o PreOrderAll(h, Tail(cs))

SeqRange(s) == {s[i] : i \in 1..Len(s)}

\* objects a set of objects refers to
Referents(h, ns) ==
    UNION {SeqRange(h[n].children) \cup ({h[n].prev_leaf, h[n].next_leaf} \ {None})
           : n \in ns}

RECURSIVE Reachable(_, _)
Reachable(h, ns) ==
    LET more == ns \cup Referents(h, ns)
    IN  IF more = ns THEN ns ELSE Reachable(h, more)

RECURSIVE SetToSeq(_)
SetToSeq(S) ==
    IF S = {} THEN <<>>
    ELSE LET m == CHOOSE x \in S : \A y \in S : x <= y
         IN  <<m>> \o SetToSeq(S \ {m})

Canon(h, rt) ==
    LET pre == PreOrder(h, rt)
        live == pre \o SetToSeq(Reachable(h, {rt}) \ SeqRange(pre))
        new(n) == IF n = None THEN None
                  ELSE CHOOSE i \in 1..Len(live) : live[i] = n
    IN  [heap |-> [i \in 1..Len(live) |->
                     LET o == h[live[i]]
                     IN  [o EXCEPT !.children = [j \in 1..Len(@) |-> new(@[j])],
                                   !.prev_leaf = new(@),
                                   !.next_leaf = new(@)]],
         root |-> new(rt)]

(***************************************************************************)
(* LRUCache (cache.py).  lru is the OrderedDict, least recently used        *)
(* first; grave is the WeakValueDictionary.                                 *)
(***************************************************************************)
LruKeys(l) == {l[i][1] : i \in 1..Len(l)}

LruIndex(l, key) == CHOOSE i \in 1..Len(l) : l[i][1] = key

LruValue(l, key) == l[LruIndex(l, key)][2]

\* del lru[key]
LruDrop(l, key) ==
    IF key \in LruKeys(l) THEN ListRemove(l, LruIndex(l, key) - 1) ELSE l

\* del grave[key]
GraveDrop(g, key) == [k \in (DOMAIN g) \ {key} |-> g[k]]

\* LRUCache.get that returns a hit without lru.move_to_end(key)
cache_get_NoMoveToEnd(l, g, key) ==
    IF key \in LruKeys(l)
    THEN [lru |-> l, grave |-> g, value |-> LruValue(l, key), kind |-> "hit"]
    ELSE IF key \in DOMAIN g
    THEN [lru |-> Append(l, <<key, g[key]>>),
          grave |-> GraveDrop(g, key), value |-> g[key],
          kind |-> "resurrection"]
    ELSE [lru |-> l, grave |-> g, value |-> None, kind |-> "miss"]

\* LRUCache.get that resurrects with grave.get(key) in place of grave.pop(key)
cache_get_KeepsGrave(l, g, key) ==
    IF key \in LruKeys(l)
    THEN [lru |-> Append(LruDrop(l, key), <<key, LruValue(l, key)>>),
          grave |-> g, value |-> LruValue(l, key), kind |-> "hit"]
    ELSE IF key \in DOMAIN g
    THEN [lru |-> Append(l, <<key, g[key]>>),
          grave |-> g, value |-> g[key],
          kind |-> "resurrection"]
    ELSE [lru |-> l, grave |-> g, value |-> None, kind |-> "miss"]

\* LRUCache.get: the cache afterwards, the value returned (None: the
\* default), and whether it was a hit, a resurrection or a miss
cache_get(l, g, key) ==
    IF key \in LruKeys(l)
    THEN [lru |-> Append(LruDrop(l, key), <<key, LruValue(l, key)>>),
          grave |-> g, value |-> LruValue(l, key), kind |-> "hit"]
    ELSE IF key \in DOMAIN g
    THEN [lru |-> Append(l, <<key, g[key]>>),
          grave |-> GraveDrop(g, key), value |-> g[key],
          kind |-> "resurrection"]
    ELSE [lru |-> l, grave |-> g, value |-> None, kind |-> "miss"]

\* the `while len(self.lru) > self.maxsize` loop of LRUCache.set.  A value
\* that cannot be weakly referenced (bytes) makes grave[k] = v raise
\* TypeError after the entry was popped.
RECURSIVE cache_evict(_, _, _, _)
cache_evict(l, g, maxsize, weakrefable) ==
    IF Len(l) > maxsize
    THEN IF weakrefable
         THEN cache_evict(Tail(l),
                          [k \in (DOMAIN g) \cup {l[1][1]} |->
                              IF k = l[1][1] THEN l[1][2] ELSE g[k]],
                          maxsize, weakrefable)
         ELSE [lru |-> Tail(l), grave |-> g, err |-> "TypeError"]
    ELSE [lru |-> l, grave |-> g, err |-> "none"]

\* LRUCache.set
cache_set(l, g, maxsize, weakrefable, key, value) ==
    cache_evict(Append(LruDrop(l, key), <<key, value>>),
                GraveDrop(g, key), maxsize, weakrefable)

\* LRUCache.delete
cache_delete(l, g, key) == [lru |-> LruDrop(l, key), grave |-> GraveDrop(g, key)]

(***************************************************************************)
(* Pager (pager.py).  A page is what PAGE_FORMAT ("!8sQ4080x") reads of     *)
(* it: the 8-byte magic, the 8-byte number after it, and the rest; size is  *)
(* its length in bytes.  The file is a sequence of pages of PAGESIZE bytes, *)
(* of which only the last can be shorter.                                   *)
(***************************************************************************)
PAGESIZE == 4096
CACHE_MAXSIZE == 32

\* PAGE_FORMAT.pack(magic, n)
Pack(magic, n) == [magic |-> magic, num |-> n, rest |-> 0, size |-> PAGESIZE]

\* b"\x00" * PAGESIZE
BLANK_PAGE == [magic |-> "zeros", num |-> 0, rest |-> 0, size |-> PAGESIZE]

\* a page of caller's data
DataPage(d) == [magic |-> "data", num |-> d, rest |-> d, size |-> PAGESIZE]

\* Pager._seek_end, in bytes
SeekEnd(f) == IF f = <<>> THEN 0 ELSE (Len(f) - 1) * PAGESIZE + f[Len(f)].size

\* file.seek(pageno * PAGESIZE); file.write(data).  A write over a page
\* replaces it (of a longer page only the head); a write at or past the
\* end fills the gap before it with zero bytes.
FileWrite(f, pageno, data) ==
    IF pageno < Len(f)
    THEN [f EXCEPT ![pageno + 1] =
             [data EXCEPT !.size = IF @ < f[pageno + 1].size
                                   THEN f[pageno + 1].size ELSE @]]
    ELSE (IF f = <<>> THEN f ELSE [f EXCEPT ![Len(f)].size = PAGESIZE])
         \o [i \in 1..(pageno - Len(f)) |-> BLANK_PAGE]
         \o <<data>>

\* file.seek(pageno * PAGESIZE); file.read(PAGESIZE): what is there, which
\* is nothing past the end
FileRead(f, pageno) ==
    IF pageno < Len(f) THEN f[pageno + 1]
    ELSE [magic |-> "zeros", num |-> 0, rest |-> 0, size |-> 0]

\* Pager._seek_page that compares only the page's offset with the end
SeekPageRaises_OffsetOnly(f, pageno) == pageno * PAGESIZE > SeekEnd(f)

\* Pager._seek_page: whether it raises "pageno out of bounds"
SeekPageRaises(f, pageno) == pageno * PAGESIZE + PAGESIZE > SeekEnd(f)

\* the state of a Pager and the outcome of a method: the value returned
\* and the exception raised
PagerState == [file |-> file, nf |-> next_free_pageno, lru |-> lru, grave |-> grave]

Ret(st, ret, err) ==
    [file |-> st.file, nf |-> st.nf, lru |-> st.lru, grave |-> st.grave,
     ret |-> ret, err |-> err]

\* Pager.read_page (use_cache = True)
read_page(st, pageno) ==
    LET g == cache_get(st.lru, st.grave, pageno)
        st1 == [st EXCEPT !.lru = g.lru, !.grave = g.grave]
        data == FileRead(st.file, pageno)
        c == cache_set(st1.lru, st1.grave, CACHE_MAXSIZE, FALSE, pageno, data)
    IN  IF g.kind # "miss"
        THEN Ret(st1, g.value, "none")
        ELSE IF SeekPageRaises(st.file, pageno)
        THEN Ret(st1, None, "ValueError")
        ELSE IF data.size # PAGESIZE
        THEN Ret(st1, None, "AssertionError")
        ELSE IF c.err # "none"
        THEN Ret([st1 EXCEPT !.lru = c.lru, !.grave = c.grave], None, c.err)
        ELSE Ret([st1 EXCEPT !.lru = c.lru, !.grave = c.grave], data, "none")

\* Pager.write_page without the assert on the length of data
write_page_NoLengthCheck(st, pageno, data) ==
    IF SeekPageRaises(st.file, pageno)
    THEN Ret(st, None, "ValueError")
    ELSE LET c == cache_delete(st.lru, st.grave, pageno)
         IN  Ret([st EXCEPT !.file = FileWrite(@, pageno, data),
                            !.lru = c.lru, !.grave = c.grave],
                 None, "none")

\* Pager.write_page
write_page(st, pageno, data) ==
    IF data.size # PAGESIZE
    THEN Ret(st, None, "AssertionError")
    ELSE IF SeekPageRaises(st.file, pageno)
    THEN Ret(st, None, "ValueError")
    ELSE LET c == cache_delete(st.lru, st.grave, pageno)
         IN  Ret([st EXCEPT !.file = FileWrite(@, pageno, data),
                            !.lru = c.lru, !.grave = c.grave],
                 None, "none")

\* Pager._write_next_free_pageno that sets the attribute and leaves the zero
\* page alone
write_next_free_pageno_MemoryOnly(st, pageno) ==
    Ret([st EXCEPT !.nf = pageno], None, "none")

\* Pager._write_next_free_pageno
write_next_free_pageno(st, pageno) ==
    LET w == write_page(st, 0, Pack("ZERO", pageno))
    IN  IF w.err # "none" THEN w
        ELSE Ret([file |-> w.file, nf |-> pageno, lru |-> w.lru, grave |-> w.grave],
                 None, "none")

\* Pager._alloc_fresh_page
alloc_fresh_page(st) ==
    LET end == SeekEnd(st.file)
        next_page == IF end % PAGESIZE # 0
                     THEN (end - (end % PAGESIZE)) + PAGESIZE
                     ELSE end
    IN  Ret([st EXCEPT !.file = FileWrite(@, next_page \div PAGESIZE, BLANK_PAGE)],
            next_page \div PAGESIZE, "none")

\* Pager.alloc_page that extends the file whatever the free list holds
alloc_page_AlwaysFresh(st) == alloc_fresh_page(st)

\* Pager.alloc_page
alloc_page(st) ==
    IF st.nf # 0
    THEN LET pageno == st.nf
             r == read_page(st, pageno)
             st1 == [file |-> r.file, nf |-> r.nf, lru |-> r.lru, grave |-> r.grave]
         IN  IF r.err # "none" THEN r
             ELSE IF r.ret.magic # "FREE"
             THEN Ret(st1, None, "RuntimeError")
             ELSE LET w == write_next_free_pageno(st1, r.ret.num)
                  IN  IF w.err # "none" THEN w
                      ELSE Ret(w, pageno, "none")
    ELSE alloc_fresh_page(st)

\* Pager.free_page that writes the frame and does not commit the head to
\* the zero page
free_page_NoCommit(st, pageno) ==
    LET c == cache_delete(st.lru, st.grave, pageno)
        st1 == [st EXCEPT !.lru = c.lru, !.grave = c.grave]
        w == write_page(st1, pageno, Pack("FREE", st.nf))
    IN  IF w.err # "none" THEN w
        ELSE Ret([file |-> w.file, nf |-> pageno, lru |-> w.lru, grave |-> w.grave],
                 None, "none")

\* Pager.free_page that writes a frame without the previous head
free_page_DropsList(st, pageno) ==
    LET c == cache_delete(st.lru, st.grave, pageno)
        st1 == [st EXCEPT !.lru = c.lru, !.grave = c.grave]
        w == write_page(st1, pageno, Pack("FREE", 0))
    IN  IF w.err # "none" THEN w
        ELSE write_next_free_pageno(
                 [file |-> w.file, nf |-> w.nf, lru |-> w.lru, grave |-> w.grave],
                 pageno)

\* Pager.free_page
free_page(st, pageno) ==
    LET c == cache_delete(st.lru, st.grave, pageno)
        st1 == [st EXCEPT !.lru = c.lru, !.grave = c.grave]
        w == write_page(st1, pageno, Pack("FREE", st.nf))
    IN  IF w.err # "none" THEN w
        ELSE write_next_free_pageno(
                 [file |-> w.file, nf |-> w.nf, lru |-> w.lru, grave |-> w.grave],
                 pageno)

\* Pager.__init__ on the file f: a blank file gets its zero page, and the
\* head of the free list is read from the zero page; the cache is new
Pager_init(f) ==
    With(IF SeekEnd(f) = 0 THEN FileWrite(f, 0, Pack("ZERO", 0)) ELSE f,
         LAMBDA f1 :
            IF SeekPageRaises(f1, 0)
            THEN Ret([file |-> f1, nf |-> 0, lru |-> <<>>, grave |-> <<>>],
                     None, "ValueError")
            ELSE IF f1[1].magic # "ZERO"
            THEN Ret([file |-> f1, nf |-> 0, lru |-> <<>>, grave |-> <<>>],
                     None, "RuntimeError")
            ELSE Ret([file |-> f1, nf |-> f1[1].num, lru |-> <<>>, grave |-> <<>>],
                     None, "none"))

\* Pager.close: every write of the Pager goes through the one file object,
\* and close flushes it, so the closed file holds the pages st.file
Pager_close(st) == st.file

(***************************************************************************)
(* The tree as a state machine: puts and deletes on one BPlusTree.          *)
(***************************************************************************)
TreeConfigs ==
    {<<"memory", MEMORY_ORDER>>} \cup {<<"disk", o>> : o \in DiskOrders}

Keys ==
    IF impl = "memory" THEN 1..MaxKeyMemory
    ELSE IF ORDER % 2 = 1 THEN 1..MaxKeyOdd ELSE 1..MaxKeyEven

\* the keys that are put with either of two values; the largest key range
\* (the even order) is explored with one value per key
RewriteKeys == IF impl = "disk" /\ ORDER % 2 = 0 THEN {} ELSE {3}

Values(key) == IF key \in RewriteKeys THEN {1, 2} ELSE {1}

\* BPlusTree.__init__: an interior root over one empty leaf
TreeInit ==
    /\ \E c \in TreeConfigs : impl = c[1] /\ ORDER = c[2]
    /\ heap = <<InteriorNode(<<>>, <<2>>), LeafNode(None, None)>>
    /\ root = 1
    /\ raised = "none"
    /\ lastOp = [name |-> "init", present |-> FALSE, ev |-> {}]
    /\ shadow = [k \in Keys |-> None]

\* tree[key] = value
Put(key, value) ==
    /\ raised = "none"
    /\ \E r \in {SetItem(heap, root, key, value)} :
       \E c \in {Canon(r.heap, r.root)} :
           /\ heap' = c.heap
           /\ root' = c.root
           /\ raised' = IF IsRaise(r.status) THEN r.status ELSE "none"
           /\ lastOp' = [name |-> "put", present |-> shadow[key] # None, ev |-> r.ev]
           /\ shadow' = IF IsRaise(r.status) THEN shadow
                        ELSE [shadow EXCEPT ![key] = value]
    /\ UNCHANGED <<impl, ORDER>>

\* del tree[key]
Delete(key) ==
    /\ raised = "none"
    /\ \E r \in {DelItem(heap, root, key)} :
       \E c \in {Canon(r.heap, r.root)} :
           /\ heap' = c.heap
           /\ root' = c.root
           /\ raised' = IF IsRaise(r.status) THEN r.status ELSE "none"
           /\ lastOp' = [name |-> "delete", present |-> shadow[key] # None, ev |-> r.ev]
           /\ shadow' = IF IsRaise(r.status) THEN shadow
                        ELSE [shadow EXCEPT ![key] = None]
    /\ UNCHANGED <<impl, ORDER>>

\* LRUCache.__init__: the counters; no call was made yet
CountersInit ==
    /\ hits = 0
    /\ misses = 0
    /\ resurrections = 0
    /\ cacheOp = [name |-> "init", key |-> None, kind |-> "none", ret |-> None,
                  evicted |-> {}, order |-> <<>>, gets |-> 0]

\* ReadWriteLock.__init__
ReadWriteLock_init ==
    /\ read_lock = None
    /\ write_lock = None
    /\ reader_count = 0
    /\ waiters = <<>>

\* a single caller: no other thread is in a call
LockInit ==
    /\ ReadWriteLock_init
    /\ threads = <<>>

\* Pager.__init__ on a blank file: the zero page is written and read back
PagerInit ==
    /\ \E r \in {Pager_init(<<>>)} :
          /\ file = r.file
          /\ next_free_pageno = r.nf
          /\ lru = r.lru
          /\ grave = r.grave
    /\ pagerOp = [name |-> "init", pageno |-> None, kind |-> "none",
                  len |-> 0, ret |-> None, err |-> "none",
                  head |-> 0, pages |-> 0, wasLive |-> FALSE,
                  pair |-> FALSE, head0 |-> 0,
                  freed |-> 0, freedHead |-> 0]
    /\ allocated = {}
    /\ CountersInit
    /\ codec = [name |-> "init"]

Init == TreeInit /\ PagerInit /\ LockInit

Next ==
    \/ \E key \in Keys : \E value \in Values(key) : Put(key, value)
          /\ UNCHANGED <<pagerVars, counterVars, lockVars, codec>>
    \/ \E key \in Keys : Delete(key)
          /\ UNCHANGED <<pagerVars, counterVars, lockVars, codec>>

Spec == Init /\ [][Next]_vars

(***************************************************************************)
(* Views of the tree used to state the properties.                          *)
(***************************************************************************)
Max(S) == CHOOSE x \in S : \A y \in S : y <= x

\* the nodes of the tree, and its leaves
TreeNodes == SeqRange(PreOrder(heap, root))
TreeLeaves == {n \in TreeNodes : heap[n].leaf}
TreeInteriors == {n \in TreeNodes : ~heap[n].leaf}

\* the keys that are currently in the dictionary
LiveKeys == {k \in Keys : shadow[k] # None}

RECURSIVE LeafDepths(_, _, _)
LeafDepths(h, n, d) ==
    IF h[n].leaf THEN {d}
    ELSE UNION {LeafDepths(h, h[n].children[j], d + 1) : j \in 1..Len(h[n].children)}

Height == Max(LeafDepths(heap, root, 0))

\* every key stored in the subtree of n: separators and entries
RECURSIVE SubtreeKeys(_, _)
SubtreeKeys(h, n) ==
    IF h[n].leaf THEN {h[n].entries[j].key : j \in 1..Len(h[n].entries)}
    ELSE SeqRange(h[n].keys)
         \cup UNION {SubtreeKeys(h, h[n].children[j]) : j \in 1..Len(h[n].children)}

\* the leaves met from leaf n through next_leaf (prev_leaf) until the link is empty
RECURSIVE WalkNext(_, _, _)
WalkNext(h, n, fuel) ==
    IF n = None \/ fuel = 0 THEN <<>>
    ELSE <<n>> \o WalkNext(h, h[n].next_leaf, fuel - 1)

RECURSIVE WalkPrev(_, _, _)
WalkPrev(h, n, fuel) ==
    IF n = None \/ fuel = 0 THEN <<>>
    ELSE <<n>> \o WalkPrev(h, h[n].prev_leaf, fuel - 1)

Fuel == Cardinality(DOMAIN heap) + 1
ForwardWalk == WalkNext(heap, first_leaf, Fuel)
BackwardWalk == WalkPrev(heap, last_leaf, Fuel)

RECURSIVE EntriesOf(_, _)
EntriesOf(h, leaves) ==
    IF leaves = <<>> THEN <<>>
    ELSE h[Head(leaves)].entries \o EntriesOf(h, Tail(leaves))

\* the in-order scan: the entries of the leaves of the forward walk
Scan == EntriesOf(heap, ForwardWalk)

Returned == raised = "none"

\* the only leaf below a key-less root
IsRootLeaf(n) ==
    /\ heap[n].leaf
    /\ Len(heap[root].keys) = 0
    /\ heap[root].children = <<n>>

KeyCount(n) == IF heap[n].leaf THEN Len(heap[n].entries) ELSE Len(heap[n].keys)

(***************************************************************************)
(* C1  For any sequence of puts and deletes of present keys, get returns    *)
(* the value of the most recent put for every key in the live set, and     *)
(* None for every key never inserted or since deleted.                     *)
(***************************************************************************)
C1_GetReturnsLastPut ==
    Returned => \A k \in Keys : GetItem(heap, root, k) = shadow[k]

\* a rewritten key reads its second value below a root that has been split,
\* while a deleted key reads None
C1_Witness ==
    /\ Returned
    /\ Height >= 2
    /\ \E k \in RewriteKeys : shadow[k] = 2 /\ GetItem(heap, root, k) = 2
    /\ lastOp.name = "delete" /\ lastOp.present
    /\ \E k \in Keys : shadow[k] = None /\ GetItem(heap, root, k) = None

(***************************************************************************)
(* C2  Delete of a key that is not in the tree is a silent no-op: it raises *)
(* no error.                                                               *)
(***************************************************************************)
C2_DeleteAbsentRaisesNothing ==
    (lastOp.name = "delete" /\ ~lastOp.present) => raised = "none"

(***************************************************************************)
(* C3  Walking the leaves from first_leaf through next_leaf yields the      *)
(* keys in strictly ascending order, and the keys visited are exactly the  *)
(* live set, each exactly once.                                            *)
(***************************************************************************)
C3_ScanAscendingLiveSet ==
    Returned =>
        /\ \A i \in 1..(Len(Scan) - 1) : Scan[i].key < Scan[i + 1].key
        /\ {Scan[i].key : i \in 1..Len(Scan)} = LiveKeys
        /\ Len(Scan) = Cardinality(LiveKeys)

\* a scan over at least three leaves, after a delete that merged two leaves
C3_Witness ==
    /\ Returned
    /\ Len(ForwardWalk) >= 3
    /\ Len(Scan) >= 4
    /\ lastOp.name = "delete" /\ "leaf_merge" \in lastOp.ev

(***************************************************************************)
(* C4  Node fill: every node other than the root (the only leaf below a    *)
(* key-less root counting as the root) holds between MIN_KEYS and MAX_KEYS  *)
(* keys, and the root between 0 and MAX_KEYS, for every ORDER >= 3.         *)
(***************************************************************************)
C4_NodeFill ==
    Returned =>
        \A n \in TreeNodes :
            /\ KeyCount(n) <= MAX_KEYS
            /\ (n # root /\ ~IsRootLeaf(n)) => KeyCount(n) >= MIN_KEYS

(***************************************************************************)
(* C5  After every put or delete all leaves are at the same depth below    *)
(* the root; the height grows only when the root itself is split (by one    *)
(* level) and shrinks only by root collapse (by one level).                 *)
(***************************************************************************)
AllLeavesSameDepth == Cardinality(LeafDepths(heap, root, 0)) = 1

HeightStep ==
    /\ Height' > Height =>
          /\ Height' = Height + 1
          /\ lastOp'.name = "put" /\ "root_split" \in lastOp'.ev
          /\ Len(heap'[root'].children) = 2
    /\ Height' < Height =>
          /\ Height' = Height - 1
          /\ lastOp'.name = "delete" /\ "root_collapse" \in lastOp'.ev
    /\ ("root_split" \in lastOp'.ev /\ raised' = "none") => Height' = Height + 1
    /\ ("root_collapse" \in lastOp'.ev /\ raised' = "none") => Height' = Height - 1

C5_LeavesSameDepth ==
    /\ [](Returned => AllLeavesSameDepth)
    /\ [][HeightStep]_vars

\* a root over at least three leaves that a delete has just brought down
\* one level by collapsing the root
C5_Witness ==
    /\ Returned
    /\ "root_collapse" \in lastOp.ev
    /\ Height = 1
    /\ Cardinality(TreeLeaves) >= 3

(***************************************************************************)
(* C6  Leaf-chain symmetry: if L.next_leaf = R then R.prev_leaf = L, and if *)
(* L.prev_leaf = P then P.next_leaf = L; the forward walk from first_leaf   *)
(* and the backward walk from last_leaf visit the same leaves, which are    *)
(* exactly the leaves reachable from the root.                             *)
(***************************************************************************)
C6_LeafChainSymmetry ==
    Returned =>
        /\ \A L \in TreeLeaves :
              /\ heap[L].next_leaf # None => heap[heap[L].next_leaf].prev_leaf = L
              /\ heap[L].prev_leaf # None => heap[heap[L].prev_leaf].next_leaf = L
        /\ SeqRange(ForwardWalk) = TreeLeaves
        /\ SeqRange(BackwardWalk) = TreeLeaves
        /\ Len(ForwardWalk) = Cardinality(TreeLeaves)
        /\ Len(BackwardWalk) = Cardinality(TreeLeaves)

\* a chain of at least three leaves right after a split spliced a leaf in
\* the middle of the chain
C6_Witness ==
    /\ Returned
    /\ "leaf_split" \in lastOp.ev
    /\ Cardinality(TreeLeaves) >= 3
    /\ \E L \in TreeLeaves : heap[L].prev_leaf # None /\ heap[L].next_leaf # None

(***************************************************************************)
(* C7  Separator discipline: for every interior node and index i, every    *)
(* key stored in the subtree children[i] is strictly less than keys[i]     *)
(* and every key stored in the subtree children[i+1] is >= keys[i].         *)
(***************************************************************************)
C7_SeparatorDiscipline ==
    Returned =>
        \A n \in TreeInteriors :
            /\ Len(heap[n].children) = Len(heap[n].keys) + 1
            /\ \A i \in 1..Len(heap[n].keys) :
                  /\ \A k \in SubtreeKeys(heap, heap[n].children[i]) :
                        k < heap[n].keys[i]
                  /\ \A k \in SubtreeKeys(heap, heap[n].children[i + 1]) :
                        k >= heap[n].keys[i]

\* a delete that repaired an underflow by borrowing between interior nodes
C7_Witness ==
    /\ Returned
    /\ lastOp.name = "delete"
    /\ lastOp.ev \cap {"interior_borrow_right", "interior_borrow_left"} # {}
    /\ lastOp.ev \cap {"leaf_merge", "leaf_borrow_left", "leaf_borrow_right"} # {}

C9_EmptyAfterDeletingAll ==
    (Returned /\ LiveKeys = {}) =>
        /\ \A k \in Keys : GetItem(heap, root, k) = None
        /\ Cardinality(TreeLeaves) = 1
        /\ \A L \in TreeLeaves :
              /\ heap[L].entries = <<>>
              /\ heap[L].prev_leaf = None
              /\ heap[L].next_leaf = None
        /\ \A n \in TreeInteriors : heap[n].keys = <<>>
        /\ Cardinality(DOMAIN heap) = 2

\* the delete of the last live key
C9_Witness ==
    /\ Returned
    /\ LiveKeys = {}
    /\ lastOp.name = "delete" /\ lastOp.present

(***************************************************************************)
(* The Pager as a state machine: reads, writes, allocations and frees on    *)
(* one Pager over a file that was blank when it was opened.                 *)
(***************************************************************************)
\* the file holds at most MaxPages pages
MaxPages == 2

\* the data the caller writes
DataValues == {1}

\* page numbers the caller passes: every page the file may hold, and one more
Pagenos == 0..MaxPages

WritableData == {DataPage(d) : d \in DataValues}

\* data that is one byte short of a page, and data that is one byte longer
WrongSizeData ==
    {[DataPage(d) EXCEPT !.size = PAGESIZE - 1] : d \in DataValues}
    \cup {[DataPage(d) EXCEPT !.size = PAGESIZE + 1] : d \in DataValues}

\* whether this call is free_page of the page that the call before it, an
\* alloc_page, returned
CallPair(name, pageno) ==
    /\ name = "free_page"
    /\ pagerOp.name = "alloc_page" /\ pagerOp.err = "none"
    /\ pagerOp.ret = pageno

\* whether this call ends the wait of a freed page for the next alloc_page:
\* any alloc_page or free_page does, and a write_page over the freed page
EndsFreed(name, pageno) ==
    \/ name \in {"alloc_page", "free_page"}
    \/ name = "write_page" /\ pageno = pagerOp.freed

\* a call of a Pager method with outcome r.  pagerOp records the call (for
\* write_page with the length of its data, len), what it returned or
\* raised, and what the caller saw before it: the free-list
\* head (head), the number of pages (pages), whether the page passed was an
\* allocated one (wasLive), for a free_page right after the alloc_page
\* that returned its page (pair) the head before that alloc_page (head0),
\* and the allocated page that the last free_page freed while no
\* alloc_page has been called since (freed, 0 for none) with the head
\* before that free_page (freedHead)
PagerStep(name, pageno, kind, len, r) ==
    /\ file' = r.file
    /\ next_free_pageno' = r.nf
    /\ lru' = r.lru
    /\ grave' = r.grave
    /\ pagerOp' = [name |-> name, pageno |-> pageno, kind |-> kind,
                   len |-> len, ret |-> r.ret, err |-> r.err,
                   head |-> next_free_pageno, pages |-> Len(file),
                   wasLive |-> pageno \in allocated,
                   pair |-> CallPair(name, pageno),
                   head0 |-> IF CallPair(name, pageno) THEN pagerOp.head ELSE 0,
                   freed |-> IF name = "free_page" /\ r.err = "none"
                                /\ pageno \in allocated
                             THEN pageno
                             ELSE IF EndsFreed(name, pageno) THEN 0
                             ELSE pagerOp.freed,
                   freedHead |-> IF name = "free_page" /\ r.err = "none"
                                    /\ pageno \in allocated
                                 THEN next_free_pageno
                                 ELSE IF EndsFreed(name, pageno) THEN 0
                                 ELSE pagerOp.freedHead]
    /\ allocated' = IF r.err # "none" THEN allocated
               ELSE IF name = "alloc_page" THEN allocated \cup {r.ret}
               ELSE IF name = "free_page" THEN allocated \ {pageno}
               ELSE allocated
    /\ UNCHANGED <<counterVars, lockVars, codec>>

ReadPage(pageno) ==
    PagerStep("read_page", pageno, cache_get(lru, grave, pageno).kind, 0,
              read_page(PagerState, pageno))

WritePage(pageno, data) ==
    PagerStep("write_page", pageno, "none", data.size, write_page(PagerState, pageno, data))

AllocPage ==
    /\ next_free_pageno = 0 => Len(file) < MaxPages
    /\ PagerStep("alloc_page", None, "none", 0, alloc_page(PagerState))

FreePage(pageno) ==
    PagerStep("free_page", pageno, "none", 0, free_page(PagerState, pageno))

TreeIdle ==
    /\ impl = "disk"
    /\ ORDER = 3
    /\ heap = <<InteriorNode(<<>>, <<2>>), LeafNode(None, None)>>
    /\ root = 1
    /\ raised = "none"
    /\ lastOp = [name |-> "init", present |-> FALSE, ev |-> {}]
    /\ shadow = [k \in Keys |-> None]

PagerSpecInit == TreeIdle /\ PagerInit /\ LockInit

PagerNext ==
    \/ \E pageno \in Pagenos : ReadPage(pageno) /\ UNCHANGED treeVars
    \/ \E pageno \in Pagenos : \E data \in WritableData \cup WrongSizeData :
          WritePage(pageno, data) /\ UNCHANGED treeVars
    \/ AllocPage /\ UNCHANGED treeVars
    \/ \E pageno \in Pagenos : FreePage(pageno) /\ UNCHANGED treeVars

PagerSpec == PagerSpecInit /\ [][PagerNext]_vars

(***************************************************************************)
(* C10  Read-after-write coherence: read_page(p) for an in-bounds p         *)
(* returns exactly the bytes currently stored in the file for page p; a     *)
(* copy held in the LRU or the graveyard is never stale.                    *)
(***************************************************************************)
C10_ReadAfterWriteCoherence ==
    /\ \A i \in 1..Len(lru) :
          /\ ~SeekPageRaises(file, lru[i][1])
          /\ lru[i][2] = file[lru[i][1] + 1]
    /\ \A p \in DOMAIN grave :
          /\ ~SeekPageRaises(file, p)
          /\ grave[p] = file[p + 1]
    /\ (pagerOp.name = "read_page" /\ ~SeekPageRaises(file, pagerOp.pageno)) =>
          /\ pagerOp.err = "none"
          /\ pagerOp.ret = file[pagerOp.pageno + 1]

(***************************************************************************)
(* C11  read_page(p) and write_page(p, data), data being a page of          *)
(* PAGESIZE bytes, with p at or past the number of pages in the file raise  *)
(* the out-of-bounds ValueError and leave the file, next_free_pageno and    *)
(* the set of cached pages as they were.                                    *)
(***************************************************************************)
C11_OutOfBoundsLeavesState ==
    [][(/\ \/ pagerOp'.name = "read_page"
           \/ pagerOp'.name = "write_page" /\ pagerOp'.len = PAGESIZE
        /\ pagerOp'.pageno >= Len(file))
       => /\ pagerOp'.err = "ValueError"
          /\ file' = file
          /\ next_free_pageno' = next_free_pageno
          /\ LruKeys(lru') = LruKeys(lru)
          /\ DOMAIN grave' = DOMAIN grave]_vars

\* a write past the end of a two-page file was refused, with a page in the
\* cache and a page on the free list
C11_Witness ==
    /\ pagerOp.name = "write_page"
    /\ pagerOp.len = PAGESIZE
    /\ pagerOp.pageno >= Len(file)
    /\ pagerOp.err = "ValueError"
    /\ Len(file) = 2
    /\ Len(lru) >= 1
    /\ next_free_pageno # 0

(***************************************************************************)
(* A caller that scans the file: it allocates pages and reads the pages in  *)
(* ascending order, each one once while it is cached; once the file has     *)
(* MaxScanPages pages it also frees the last page and overwrites it while   *)
(* it is the head of the free list.  Reading more pages than the cache      *)
(* holds takes it to the eviction loop of LRUCache.set.                     *)
(***************************************************************************)
\* the scanned file holds at most MaxScanPages pages
MaxScanPages == 33

\* the last page of the file
LastPage == Len(file) - 1

\* the pages of the file that are not cached
Uncached == {p \in 0..LastPage : p \notin LruKeys(lru)}

\* read_page of the first page that is not cached
ScanRead ==
    \E pageno \in Uncached :
        /\ \A q \in Uncached : pageno <= q
        /\ ReadPage(pageno)

\* alloc_page
ScanAlloc ==
    /\ next_free_pageno = 0 => Len(file) < MaxScanPages
    /\ PagerStep("alloc_page", None, "none", 0, alloc_page(PagerState))

\* free_page of the last page of the full file, which alloc_page returned
ScanFree ==
    /\ Len(file) = MaxScanPages
    /\ LastPage \in allocated
    /\ FreePage(LastPage)

\* write_page over the last page of the full file while it is freed
ScanWrite ==
    /\ Len(file) = MaxScanPages
    /\ next_free_pageno = LastPage
    /\ \E data \in WritableData : WritePage(LastPage, data)

ScanNext ==
    \/ ScanRead /\ UNCHANGED treeVars
    \/ ScanAlloc /\ UNCHANGED treeVars
    \/ ScanFree /\ UNCHANGED treeVars
    \/ ScanWrite /\ UNCHANGED treeVars

ScanSpec == PagerSpecInit /\ [][ScanNext]_vars

(***************************************************************************)
(* C12  When next_free_pageno = 0, alloc_page returns n = the number of     *)
(* pages in the file before the call, the file grows by exactly one page,   *)
(* page n reads back (read_page(n)) as all zero bytes, and every other page *)
(* and next_free_pageno are unchanged.                                      *)
(***************************************************************************)
C12_AllocFreshPage ==
    [][(pagerOp'.name = "alloc_page" /\ next_free_pageno = 0)
       => /\ pagerOp'.err = "none"
          /\ pagerOp'.ret = Len(file)
          /\ Len(file') = Len(file) + 1
          /\ read_page(PagerState', pagerOp'.ret).err = "none"
          /\ read_page(PagerState', pagerOp'.ret).ret = BLANK_PAGE
          /\ \A p \in 1..Len(file) : file'[p] = file[p]
          /\ next_free_pageno' = next_free_pageno]_vars

(***************************************************************************)
(* C13  The free list is a LIFO stack: free_page(p) for an allocated page p *)
(* writes on page p a free-page frame pointing at the previous head and     *)
(* makes p the head; the next alloc_page then returns p, restores           *)
(* next_free_pageno to the head before the free, and does not grow the      *)
(* file.                                                                    *)
(***************************************************************************)
C13_FreeListIsLIFO ==
    [][/\ (pagerOp'.name = "free_page" /\ pagerOp'.pageno \in allocated)
          => /\ pagerOp'.err = "none"
             /\ file'[pagerOp'.pageno + 1] = Pack("FREE", next_free_pageno)
             /\ next_free_pageno' = pagerOp'.pageno
       /\ (pagerOp'.name = "alloc_page" /\ pagerOp.freed # 0)
          => /\ pagerOp'.err = "none"
             /\ pagerOp'.ret = pagerOp.freed
             /\ next_free_pageno' = pagerOp.freedHead
             /\ Len(file') = Len(file)]_vars

(***************************************************************************)
(* A caller that leaves the zero page to the Pager: reads and frees with    *)
(* any page number, writes on non-zero pages, allocations, and closing the  *)
(* Pager and opening a new one on the same file.                            *)
(***************************************************************************)
\* pager.close() and then Pager.open_file on the same path
Reopen ==
    PagerStep("reopen", None, "none", 0, Pager_init(Pager_close(PagerState)))

PersistNext ==
    \/ \E pageno \in Pagenos : ReadPage(pageno) /\ UNCHANGED treeVars
    \/ \E pageno \in Pagenos \ {0} : \E data \in WritableData :
          WritePage(pageno, data) /\ UNCHANGED treeVars
    \/ AllocPage /\ UNCHANGED treeVars
    \/ \E pageno \in Pagenos : FreePage(pageno) /\ UNCHANGED treeVars
    \/ Reopen /\ UNCHANGED treeVars

PersistSpec == PagerSpecInit /\ [][PersistNext]_vars

(***************************************************************************)
(* C14  Free-list persistence: after every completed alloc_page, free_page  *)
(* and write_page on a non-zero page, next_free_pageno equals the head      *)
(* recorded in the zero page of the file; closing the Pager and reopening   *)
(* the file yields the same next_free_pageno and the same bytes for every   *)
(* page.                                                                    *)
(***************************************************************************)
C14_FreeListPersistence ==
    [][/\ (pagerOp'.name \in {"alloc_page", "free_page", "write_page"}
           /\ pagerOp'.err = "none")
          => file'[1] = Pack("ZERO", next_free_pageno')
       /\ pagerOp'.name = "reopen"
          => /\ pagerOp'.err = "none"
             /\ next_free_pageno' = next_free_pageno
             /\ file' = file]_vars

\* a Pager was reopened on a file whose free list holds a page
C14_Witness ==
    /\ pagerOp.name = "reopen"
    /\ pagerOp.err = "none"
    /\ next_free_pageno # 0
    /\ file[next_free_pageno + 1].magic = "FREE"

(***************************************************************************)
(* The free list as successive alloc_page calls walk it: from the head,     *)
(* each page that begins with the free-page magic leads to the page its     *)
(* frame names; the walk ends at 0 or at a page that is no free page.       *)
(***************************************************************************)
\* the pages of the walk from page p, after the pages of seen; the walk
\* stops when it comes back to a page it has passed
RECURSIVE FreeListFrom(_, _, _)
FreeListFrom(f, p, seen) ==
    IF p = 0 \/ SeekPageRaises(f, p) THEN seen
    ELSE IF f[p + 1].magic # "FREE" THEN seen
    ELSE IF \E i \in 1..Len(seen) : seen[i] = p THEN Append(seen, p)
    ELSE FreeListFrom(f, f[p + 1].num, Append(seen, p))

FreeList == FreeListFrom(file, next_free_pageno, <<>>)

\* the walk passes a page twice
FreeListCyclic ==
    \E i, j \in 1..Len(FreeList) : i # j /\ FreeList[i] = FreeList[j]

(***************************************************************************)
(* A caller that only allocates and frees: alloc_page, and free_page with   *)
(* any page number, of an allocated page, of a page that is already free,   *)
(* of the zero page, or past the end of the file.                           *)
(***************************************************************************)
\* the file holds at most MaxListPages pages
MaxListPages == 4

ListAlloc ==
    /\ next_free_pageno = 0 => Len(file) < MaxListPages
    /\ PagerStep("alloc_page", None, "none", 0, alloc_page(PagerState))

FreeListNext ==
    \/ ListAlloc /\ UNCHANGED treeVars
    \/ \E pageno \in 0..MaxListPages : FreePage(pageno) /\ UNCHANGED treeVars

FreeListSpec == PagerSpecInit /\ [][FreeListNext]_vars

(***************************************************************************)
(* C15  In every state reachable by any sequence of alloc_page and          *)
(* free_page calls (free_page with any in-bounds page number, including a   *)
(* page that is already free), the free list is acyclic: following the      *)
(* frames from next_free_pageno never passes a page twice.                  *)
(***************************************************************************)
C15_FreeListAcyclic == ~FreeListCyclic

(***************************************************************************)
(* A caller that keeps to the pages it was given: alloc_page, free_page of  *)
(* a page that alloc_page returned and that was not freed since, and        *)
(* write_page on such a page.  The only reads are those of alloc_page.      *)
(***************************************************************************)
ClientFree ==
    \E pageno \in allocated : FreePage(pageno)

ClientWrite ==
    \E pageno \in allocated : \E data \in WritableData : WritePage(pageno, data)

ClientNext ==
    \/ ListAlloc /\ UNCHANGED treeVars
    \/ ClientFree /\ UNCHANGED treeVars
    \/ ClientWrite /\ UNCHANGED treeVars

ClientSpec == PagerSpecInit /\ [][ClientNext]_vars

\* the pages of the free list
FreePages == {FreeList[i] : i \in 1..Len(FreeList)}

(***************************************************************************)
(* C16  Free-list soundness: provided free_page is only called on pages     *)
(* that alloc_page returned and that were not freed since, every non-zero   *)
(* page of the file is either live or on the free list, never both and      *)
(* never twice on the list; alloc_page never returns a page that is live,   *)
(* and no freed page is lost.                                               *)
(***************************************************************************)
C16_FreeListSoundness ==
    [][/\ \A p \in 1..(Len(file') - 1) : (p \in allocated') # (p \in FreePages')
       /\ allocated' \cup FreePages' \subseteq 1..(Len(file') - 1)
       /\ ~FreeListCyclic'
       /\ (pagerOp'.name = "alloc_page" /\ pagerOp'.err = "none")
          => pagerOp'.ret \notin allocated
       /\ (pagerOp'.name = "free_page")
          => /\ pagerOp'.err = "none"
             /\ FreePages' = FreePages \cup {pagerOp'.pageno}]_vars

\* alloc_page reused the head of a free list of two pages while another
\* page was live
C16_Witness ==
    /\ pagerOp.name = "alloc_page"
    /\ pagerOp.err = "none"
    /\ pagerOp.head = pagerOp.ret
    /\ Len(FreeList) = 1
    /\ \E p \in allocated : p # pagerOp.ret

(***************************************************************************)
(* C17  (as stated) alloc_page immediately followed by free_page of the     *)
(* page it returned leaves the free-list head, in memory and in the zero    *)
(* page, equal to its value before the alloc_page, whether the free list    *)
(* was empty or not.                                                        *)
(***************************************************************************)
C17_AllocThenFreeRestoresHead ==
    (pagerOp.name = "free_page" /\ pagerOp.pair)
    => /\ pagerOp.err = "none"
       /\ next_free_pageno = pagerOp.head0
       /\ file[1] = Pack("ZERO", pagerOp.head0)

(***************************************************************************)
(* C17  (amended) alloc_page immediately followed by free_page of the page  *)
(* it returned leaves the free-list head, in memory and in the zero page,   *)
(* equal to its value before the alloc_page when the free list was not      *)
(* empty; when it was empty, the head becomes the page alloc_page added to  *)
(* the file.                                                                *)
(***************************************************************************)
C17_AllocThenFreeHead ==
    (pagerOp.name = "free_page" /\ pagerOp.pair)
    => /\ pagerOp.err = "none"
       /\ pagerOp.head0 # 0
          => /\ next_free_pageno = pagerOp.head0
             /\ file[1] = Pack("ZERO", pagerOp.head0)
       /\ pagerOp.head0 = 0
          => /\ next_free_pageno = pagerOp.pageno
             /\ pagerOp.pageno = pagerOp.pages - 1
             /\ file[1] = Pack("ZERO", pagerOp.pageno)

\* the page that alloc_page took from a free list of two pages was freed
\* right away
C17_Witness ==
    /\ pagerOp.name = "free_page"
    /\ pagerOp.pair
    /\ pagerOp.err = "none"
    /\ pagerOp.head0 # 0
    /\ Len(FreeList) = 2
    /\ ~FreeListCyclic

(***************************************************************************)
(* C18  If the page at the free-list head does not begin with the           *)
(* free-page magic (for example because write_page overwrote a freed page), *)
(* alloc_page raises the corruption error (RuntimeError, bad magic) instead *)
(* of returning a page, and it changes neither next_free_pageno nor any     *)
(* page of the file.                                                        *)
(***************************************************************************)
C18_CorruptHeadIsSurfaced ==
    [][(/\ pagerOp'.name = "alloc_page"
        /\ next_free_pageno # 0
        /\ ~SeekPageRaises(file, next_free_pageno)
        /\ file[next_free_pageno + 1].magic # "FREE")
       => /\ pagerOp'.err = "RuntimeError"
          /\ next_free_pageno' = next_free_pageno
          /\ file' = file]_vars

(***************************************************************************)
(* C19  For a Pager opened on an empty file, after every operation,         *)
(* successful or failed, the length of the file is a nonzero multiple of    *)
(* PAGESIZE, and every write_page touches exactly the PAGESIZE bytes at     *)
(* offset pageno * PAGESIZE: the other pages and the length of the file     *)
(* stay as they were, and a write_page that raises touches nothing.         *)
(***************************************************************************)
C19_WholePages ==
    [][/\ SeekEnd(file') > 0
       /\ SeekEnd(file') % PAGESIZE = 0
       /\ \A i \in 1..Len(file') : file'[i].size = PAGESIZE
       /\ pagerOp'.name = "write_page"
          => IF pagerOp'.err = "none"
             THEN /\ SeekEnd(file') = SeekEnd(file)
                  /\ pagerOp'.pageno < Len(file)
                  /\ \A i \in 1..Len(file) :
                        i # pagerOp'.pageno + 1 => file'[i] = file[i]
             ELSE file' = file]_vars

\* a write_page with data of a wrong length was refused on a file that
\* holds a page written before
C19_Witness ==
    /\ pagerOp.name = "write_page"
    /\ pagerOp.err = "AssertionError"
    /\ pagerOp.pageno = 1
    /\ Len(file) = 2
    /\ file[2] \in WritableData

(***************************************************************************)
(* C20  Opening a Pager on an empty file creates exactly one page, the zero *)
(* page, with the zero-page magic and next_free_pageno = 0; after every     *)
(* later alloc_page and free_page (with any in-bounds page number) page 0   *)
(* still begins with the zero-page magic, and alloc_page never returns      *)
(* page 0.                                                                  *)
(***************************************************************************)
C20_ZeroPageKept ==
    /\ pagerOp.name = "init"
       => /\ file = <<Pack("ZERO", 0)>>
          /\ next_free_pageno = 0
    /\ file[1].magic = "ZERO"
    /\ (pagerOp.name = "alloc_page" /\ pagerOp.err = "none") => pagerOp.ret # 0

\* free_page(0) was called while the free list held a page, and the zero
\* page has its magic
C20_Witness ==
    /\ pagerOp.name = "free_page"
    /\ pagerOp.pageno = 0
    /\ pagerOp.err = "none"
    /\ pagerOp.head # 0
    /\ file[1].magic = "ZERO"

(***************************************************************************)
(* The LRUCache on its own, as its doctest uses it: LRUCache(maxsize=2)     *)
(* with values that can be weakly referenced, and one caller that gets,     *)
(* sets and deletes keys.  A value in the graveyard lives as long as the    *)
(* caller keeps a reference to it; once the caller drops it and it is       *)
(* collected, the WeakValueDictionary loses the entry.                      *)
(***************************************************************************)
\* maxsize of the doctest's cache
DOCTEST_MAXSIZE == 2

\* the caller uses the keys 1..MaxCacheKeys
MaxCacheKeys == 3

\* the caller makes at most MaxGets get calls
MaxGets == 3

CacheKeys == 1..MaxCacheKeys

\* the objects the caller stores
CacheValues == {1, 2}

\* the keys of l in its order, least recently used first
LruKeySeq(l) == [i \in 1..Len(l) |-> l[i][1]]

\* the order of last use (cacheOp.order) among the keys of the set keys
Recency(order, keys) == SelectSeq(order, LAMBDA k : k \in keys)

\* the order of last use after a use of key
Touch(order, key) == Append(SelectSeq(order, LAMBDA k : k # key), key)

\* the place of key in the order of last use
Place(order, key) == CHOOSE i \in 1..Len(order) : order[i] = key

\* cache.get(key)
CacheGet(key) ==
    /\ cacheOp.gets < MaxGets
    /\ \E r \in {cache_get(lru, grave, key)} :
          /\ lru' = r.lru
          /\ grave' = r.grave
          /\ hits' = IF r.kind = "hit" THEN hits + 1 ELSE hits
          /\ resurrections' = IF r.kind = "resurrection"
                              THEN resurrections + 1 ELSE resurrections
          /\ misses' = IF r.kind = "miss" THEN misses + 1 ELSE misses
          /\ cacheOp' = [name |-> "get", key |-> key, kind |-> r.kind,
                         ret |-> r.value, evicted |-> {},
                         order |-> IF r.kind = "miss"
                                   THEN Recency(cacheOp.order, LruKeys(lru))
                                   ELSE Touch(Recency(cacheOp.order, LruKeys(lru)), key),
                         gets |-> cacheOp.gets + 1]

\* cache.set(key, value)
CacheSet(key, value) ==
    /\ \E r \in {cache_set(lru, grave, DOCTEST_MAXSIZE, TRUE, key, value)} :
          /\ lru' = r.lru
          /\ grave' = r.grave
          /\ cacheOp' = [name |-> "set", key |-> key, kind |-> "none",
                         ret |-> None,
                         evicted |-> (LruKeys(lru) \cup {key}) \ LruKeys(r.lru),
                         order |-> Touch(Recency(cacheOp.order, LruKeys(lru)), key),
                         gets |-> cacheOp.gets]
    /\ UNCHANGED <<hits, misses, resurrections>>

\* cache.delete(key)
CacheDelete(key) ==
    /\ \E r \in {cache_delete(lru, grave, key)} :
          /\ lru' = r.lru
          /\ grave' = r.grave
          /\ cacheOp' = [name |-> "delete", key |-> key, kind |-> "none",
                         ret |-> None, evicted |-> {},
                         order |-> Recency(cacheOp.order, LruKeys(r.lru)),
                         gets |-> cacheOp.gets]
    /\ UNCHANGED <<hits, misses, resurrections>>

\* the caller drops its reference to an evicted value and it is collected
CacheCollect(key) ==
    /\ key \in DOMAIN grave
    /\ grave' = GraveDrop(grave, key)
    /\ cacheOp' = [name |-> "collect", key |-> key, kind |-> "none",
                   ret |-> None, evicted |-> {},
                   order |-> Recency(cacheOp.order, LruKeys(lru)),
                   gets |-> cacheOp.gets]
    /\ UNCHANGED <<lru, hits, misses, resurrections>>

\* what a call of the cache leaves alone
CacheFrame ==
    UNCHANGED <<treeVars, file, next_free_pageno, pagerOp, allocated, lockVars, codec>>

CacheNext ==
    \/ \E key \in CacheKeys : CacheGet(key) /\ CacheFrame
    \/ \E key \in CacheKeys : \E value \in CacheValues :
          CacheSet(key, value) /\ CacheFrame
    \/ \E key \in CacheKeys : CacheDelete(key) /\ CacheFrame
    \/ \E key \in CacheKeys : CacheCollect(key) /\ CacheFrame

CacheSpec == PagerSpecInit /\ [][CacheNext]_vars

(***************************************************************************)
(* C21  The LRU cache is bounded: in every state reachable by any sequence  *)
(* of get, set and delete (with evicted values still alive in the graveyard *)
(* or already collected), the LRU mapping has at most maxsize entries.      *)
(***************************************************************************)
C21_LruBounded == Len(lru) <= DOCTEST_MAXSIZE


(***************************************************************************)
(* C22  Eviction is least-recently-used: the LRU mapping is kept in the     *)
(* order of last use (set, get hit, resurrection), a get that returns a     *)
(* cached value leaves its key the most recently used, and every key a set  *)
(* evicts goes to the graveyard and was used less recently than every key   *)
(* the set leaves in the LRU.                                               *)
(***************************************************************************)
C22_EvictionIsLRU ==
    /\ LruKeySeq(lru) = Recency(cacheOp.order, LruKeys(lru))
    /\ (cacheOp.name = "get" /\ cacheOp.kind # "miss") =>
          /\ Len(lru) > 0
          /\ lru[Len(lru)][1] = cacheOp.key
    /\ cacheOp.name = "set" =>
          \A e \in cacheOp.evicted :
             /\ e \in DOMAIN grave
             /\ e \notin LruKeys(lru)
             /\ \A k \in LruKeys(lru) :
                   Place(cacheOp.order, e) < Place(cacheOp.order, k)

\* set(3) evicted key 2 and kept key 1, which was inserted before key 2 and
\* used after it
C22_Witness ==
    /\ cacheOp.name = "set"
    /\ cacheOp.key = 3
    /\ cacheOp.evicted = {2}
    /\ LruKeySeq(lru) = <<1, 3>>
    /\ hits = 1

(***************************************************************************)
(* C23  Every get is exactly one of hit, resurrection and miss and          *)
(* increments only that counter.  Hit: the key is in the LRU and its value  *)
(* is returned.  Resurrection: the key is only in the graveyard, its value  *)
(* is returned, the key leaves the graveyard and enters the LRU as the most *)
(* recently used.  Miss: otherwise, the default is returned and the cache   *)
(* is as before.  hits + misses + resurrections is the number of get calls  *)
(* and no key is in the LRU and in the graveyard at once.                   *)
(***************************************************************************)
C23_GetClassified ==
    [][/\ (cacheOp'.name = "get" /\ cacheOp'.gets = cacheOp.gets + 1) =>
             LET key == cacheOp'.key
             IN  /\ key \in LruKeys(lru) =>
                       /\ cacheOp'.kind = "hit"
                       /\ cacheOp'.ret = LruValue(lru, key)
                       /\ LruKeys(lru') = LruKeys(lru)
                       /\ grave' = grave
                       /\ hits' = hits + 1
                       /\ misses' = misses
                       /\ resurrections' = resurrections
                 /\ (key \notin LruKeys(lru) /\ key \in DOMAIN grave) =>
                       /\ cacheOp'.kind = "resurrection"
                       /\ cacheOp'.ret = grave[key]
                       /\ key \notin DOMAIN grave'
                       /\ lru' = Append(lru, <<key, grave[key]>>)
                       /\ hits' = hits
                       /\ misses' = misses
                       /\ resurrections' = resurrections + 1
                 /\ (key \notin LruKeys(lru) /\ key \notin DOMAIN grave) =>
                       /\ cacheOp'.kind = "miss"
                       /\ cacheOp'.ret = None
                       /\ lru' = lru
                       /\ grave' = grave
                       /\ hits' = hits
                       /\ misses' = misses + 1
                       /\ resurrections' = resurrections
       /\ hits' + misses' + resurrections' = cacheOp'.gets
       /\ LruKeys(lru') \cap DOMAIN grave' = {}]_vars

\* a get resurrected a key after an earlier hit and an earlier miss
C23_Witness ==
    /\ cacheOp.name = "get"
    /\ cacheOp.kind = "resurrection"
    /\ cacheOp.key \in LruKeys(lru)
    /\ hits = 1
    /\ misses = 1
    /\ resurrections = 1

(***************************************************************************)
(* ReadWriteLock (util.py) used by several threads.  A thread is at a       *)
(* statement of a method of the lock (threads[t].pc) or between two calls:  *)
(* "idle", "reading" (acquire_read returned), "writing" (acquire_write      *)
(* returned), "released".  A step is one operation of a Lock or of the      *)
(* Condition.                                                               *)
(***************************************************************************)
MaxThreads == 3

Threads == 1..MaxThreads

At(t, pc) == threads[t].pc = pc

Goto(t, pc) == threads' = [threads EXCEPT ![t].pc = pc]

\* Condition.notify(): the thread that waits longest leaves wait() and goes on
\* to take the lock again
Condition_notify(th) ==
    IF waiters = <<>>
    THEN [waiters |-> waiters, threads |-> th]
    ELSE [waiters |-> Tail(waiters),
          threads |-> [th EXCEPT ![Head(waiters)].pc = "aw_restore"]]

\* ReadWriteLock.acquire_read that does not take _read_lock
acquire_read_NoReadLock(t) ==
    \/ /\ At(t, "acquire_read")
       /\ Goto(t, "ar_write_lock")
       /\ UNCHANGED <<read_lock, write_lock, reader_count, waiters>>
    \/ /\ At(t, "ar_write_lock")
       /\ write_lock = None
       /\ write_lock' = t
       /\ Goto(t, "ar_count")
       /\ UNCHANGED <<read_lock, reader_count, waiters>>
    \/ /\ At(t, "ar_count")
       /\ reader_count' = reader_count + 1
       /\ Goto(t, "ar_exit_write")
       /\ UNCHANGED <<read_lock, write_lock, waiters>>
    \/ /\ At(t, "ar_exit_write")
       /\ write_lock' = None
       /\ Goto(t, "ar_exit_read")
       /\ UNCHANGED <<read_lock, reader_count, waiters>>
    \/ /\ At(t, "ar_exit_read")
       /\ Goto(t, "reading")
       /\ UNCHANGED <<read_lock, write_lock, reader_count, waiters>>

\* ReadWriteLock.acquire_read
acquire_read(t) ==
    \/ /\ At(t, "acquire_read")            \* with self._read_lock:
       /\ read_lock = None
       /\ read_lock' = t
       /\ Goto(t, "ar_write_lock")
       /\ UNCHANGED <<write_lock, reader_count, waiters>>
    \/ /\ At(t, "ar_write_lock")           \* with self._write_lock:
       /\ write_lock = None
       /\ write_lock' = t
       /\ Goto(t, "ar_count")
       /\ UNCHANGED <<read_lock, reader_count, waiters>>
    \/ /\ At(t, "ar_count")                \* self._reader_count += 1
       /\ reader_count' = reader_count + 1
       /\ Goto(t, "ar_exit_write")
       /\ UNCHANGED <<read_lock, write_lock, waiters>>
    \/ /\ At(t, "ar_exit_write")           \* leaving with self._write_lock
       /\ write_lock' = None
       /\ Goto(t, "ar_exit_read")
       /\ UNCHANGED <<read_lock, reader_count, waiters>>
    \/ /\ At(t, "ar_exit_read")            \* leaving with self._read_lock
       /\ read_lock' = None
       /\ Goto(t, "reading")
       /\ UNCHANGED <<write_lock, reader_count, waiters>>

\* ReadWriteLock.release_read that never notifies the waiting writer
release_read_NoNotify(t) ==
    \/ /\ At(t, "release_read")
       /\ write_lock = None
       /\ write_lock' = t
       /\ Goto(t, "rr_count")
       /\ UNCHANGED <<read_lock, reader_count, waiters>>
    \/ /\ At(t, "rr_count")
       /\ reader_count' = reader_count - 1
       /\ Goto(t, "rr_exit_write")
       /\ UNCHANGED <<read_lock, write_lock, waiters>>
    \/ /\ At(t, "rr_exit_write")
       /\ write_lock' = None
       /\ Goto(t, "released")
       /\ UNCHANGED <<read_lock, reader_count, waiters>>

\* ReadWriteLock.release_read
release_read(t) ==
    \/ /\ At(t, "release_read")            \* with self._write_lock:
       /\ write_lock = None
       /\ write_lock' = t
       /\ Goto(t, "rr_count")
       /\ UNCHANGED <<read_lock, reader_count, waiters>>
    \/ /\ At(t, "rr_count")                \* count -= 1; if not count: notify()
       /\ reader_count' = reader_count - 1
       /\ \E n \in {IF reader_count - 1 = 0
                    THEN Condition_notify(threads)
                    ELSE [waiters |-> waiters, threads |-> threads]} :
             /\ waiters' = n.waiters
             /\ threads' = [n.threads EXCEPT ![t].pc = "rr_exit_write"]
       /\ UNCHANGED <<read_lock, write_lock>>
    \/ /\ At(t, "rr_exit_write")           \* leaving with self._write_lock
       /\ write_lock' = None
       /\ Goto(t, "released")
       /\ UNCHANGED <<read_lock, reader_count, waiters>>

\* ReadWriteLock.acquire_write that does not wait for the readers
acquire_write_NoWait(t) ==
    \/ /\ At(t, "acquire_write")
       /\ read_lock = None
       /\ read_lock' = t
       /\ Goto(t, "aw_write_lock")
       /\ UNCHANGED <<write_lock, reader_count, waiters>>
    \/ /\ At(t, "aw_write_lock")
       /\ write_lock = None
       /\ write_lock' = t
       /\ Goto(t, "aw_wait_for")
       /\ UNCHANGED <<read_lock, reader_count, waiters>>
    \/ /\ At(t, "aw_wait_for")
       /\ Goto(t, "writing")
       /\ UNCHANGED <<read_lock, write_lock, reader_count, waiters>>

\* ReadWriteLock.acquire_write.  wait_for tests the predicate with the lock
\* held; wait() queues the thread, gives the lock up and blocks until a
\* notify(), then takes the lock again and the predicate is tested anew.
acquire_write(t) ==
    \/ /\ At(t, "acquire_write")           \* self._read_lock.acquire()
       /\ read_lock = None
       /\ read_lock' = t
       /\ Goto(t, "aw_write_lock")
       /\ UNCHANGED <<write_lock, reader_count, waiters>>
    \/ /\ At(t, "aw_write_lock")           \* self._write_lock.acquire()
       /\ write_lock = None
       /\ write_lock' = t
       /\ Goto(t, "aw_wait_for")
       /\ UNCHANGED <<read_lock, reader_count, waiters>>
    \/ /\ At(t, "aw_wait_for")             \* wait_for(_reader_count == 0)
       /\ IF reader_count = 0
          THEN /\ Goto(t, "writing")
               /\ UNCHANGED <<write_lock, waiters>>
          ELSE /\ waiters' = Append(waiters, t)
               /\ write_lock' = None
               /\ Goto(t, "aw_blocked")
       /\ UNCHANGED <<read_lock, reader_count>>
    \/ /\ At(t, "aw_restore")              \* notified: wait() takes the lock
       /\ write_lock = None
       /\ write_lock' = t
       /\ Goto(t, "aw_wait_for")
       /\ UNCHANGED <<read_lock, reader_count, waiters>>

\* ReadWriteLock.release_write
release_write(t) ==
    \/ /\ At(t, "release_write")           \* self._write_lock.notify()
       /\ \E n \in {Condition_notify(threads)} :
             /\ waiters' = n.waiters
             /\ threads' = [n.threads EXCEPT ![t].pc = "rw_exit_write"]
       /\ UNCHANGED <<read_lock, write_lock, reader_count>>
    \/ /\ At(t, "rw_exit_write")           \* self._write_lock.release()
       /\ write_lock' = None
       /\ Goto(t, "rw_exit_read")
       /\ UNCHANGED <<read_lock, reader_count, waiters>>
    \/ /\ At(t, "rw_exit_read")            \* self._read_lock.release()
       /\ read_lock' = None
       /\ Goto(t, "released")
       /\ UNCHANGED <<write_lock, reader_count, waiters>>

\* acquire_read has returned to t and release_read has not yet counted it out
ReadAccess(t) == threads[t].pc \in {"reading", "release_read", "rr_count"}

\* acquire_write has returned to t and release_write has not yet released
WriteAccess(t) == threads[t].pc \in {"writing", "release_write", "rw_exit_write"}

\* t is in acquire_write, after self._read_lock.acquire()
WriterWaits(t) ==
    threads[t].pc \in {"aw_write_lock", "aw_wait_for", "aw_blocked", "aw_restore"}

\* t is a writer that has taken _read_lock and not yet released it
WriterHasReadLock(t) ==
    WriterWaits(t) \/ WriteAccess(t) \/ At(t, "rw_exit_read")

\* a thread between two calls enters _ReaderContext or _WriterContext
LockEnter(t) ==
    /\ At(t, "idle")
    /\ \E m \in {"acquire_read", "acquire_write"} : Goto(t, m)
    /\ UNCHANGED <<read_lock, write_lock, reader_count, waiters>>

\* a reader leaves its with block: _ReaderContext.__exit__
ReaderExit(t) ==
    /\ At(t, "reading")
    /\ Goto(t, "release_read")
    /\ UNCHANGED <<read_lock, write_lock, reader_count, waiters>>

\* a writer leaves its with block: _WriterContext.__exit__
WriterExit(t) ==
    /\ At(t, "writing")
    /\ Goto(t, "release_write")
    /\ UNCHANGED <<read_lock, write_lock, reader_count, waiters>>

\* release_read or release_write returns
LockReturn(t) ==
    /\ At(t, "released")
    /\ Goto(t, "idle")
    /\ UNCHANGED <<read_lock, write_lock, reader_count, waiters>>

LockFrame == UNCHANGED <<treeVars, pagerVars, counterVars, codec>>

\* a step of thread t inside a method of the lock
LockStep(t) ==
    /\ \/ acquire_read(t)
       \/ release_read(t)
       \/ acquire_write(t)
       \/ release_write(t)
    /\ LockFrame

LockNext ==
    \/ \E t \in Threads : acquire_read(t) /\ LockFrame
    \/ \E t \in Threads : release_read(t) /\ LockFrame
    \/ \E t \in Threads : acquire_write(t) /\ LockFrame
    \/ \E t \in Threads : release_write(t) /\ LockFrame
    \/ \E t \in Threads : LockEnter(t) /\ LockFrame
    \/ \E t \in Threads : ReaderExit(t) /\ LockFrame
    \/ \E t \in Threads : WriterExit(t) /\ LockFrame
    \/ \E t \in Threads : LockReturn(t) /\ LockFrame

LockSpecInit ==
    /\ TreeIdle
    /\ PagerInit
    /\ ReadWriteLock_init
    /\ threads = [t \in Threads |-> [pc |-> "idle"]]

LockSpec == LockSpecInit /\ [][LockNext]_vars

\* The scheduler lets every thread that can take a step inside the lock take
\* it, and every reader leaves its with block.  Nothing makes a thread enter
\* the lock, and nothing makes a writer leave.
LockFairSpec ==
    /\ LockSpec
    /\ \A t \in Threads : WF_vars(LockStep(t))
    /\ \A t \in Threads : WF_vars(ReaderExit(t) /\ LockFrame)

(***************************************************************************)
(* C24  ReadWriteLock mutual exclusion: while a thread holds write access   *)
(* no other thread holds read or write access (readers may hold read        *)
(* access together).                                                        *)
(***************************************************************************)
C24_WriterExcludesAll ==
    \A t \in Threads :
       WriteAccess(t) =>
          \A u \in Threads \ {t} : ~ WriteAccess(u) /\ ~ ReadAccess(u)

\* a writer holds write access while a reader and another writer are held up
\* in acquire_read and acquire_write
C24_Witness ==
    \E t, u, v \in Threads :
       /\ At(t, "writing")
       /\ At(u, "acquire_read")
       /\ At(v, "acquire_write")
       /\ reader_count = 0

(***************************************************************************)
(* C25  A writer is not starved: from the moment a writer in acquire_write  *)
(* has taken _read_lock until it releases it, no thread newly obtains read  *)
(* access; and, with fair scheduling and readers that leave, that writer    *)
(* eventually has write access.                                             *)
(***************************************************************************)
C25_WriterNotStarved ==
    /\ [][\A w \in Threads :
             WriterHasReadLock(w) =>
                \A u \in Threads : ReadAccess(u)' => ReadAccess(u)]_vars
    /\ \A w \in Threads : WriterWaits(w) ~> WriteAccess(w)

\* two readers hold read access together and a writer that has taken
\* _read_lock waits for them in wait_for
C25_Witness ==
    \E w, u, v \in Threads :
       /\ u # v
       /\ At(w, "aw_blocked")
       /\ At(u, "reading")
       /\ At(v, "reading")
       /\ reader_count = 2

(***************************************************************************)
(* The Pager used by two threads.  The Pager takes no lock (pager.py:277,   *)
(* "TODO: support concurrent access"), so the threads interleave between    *)
(* the statements of alloc_page, free_page and _write_next_free_pageno.  A  *)
(* call of read_page, write_page, cache.delete or _alloc_fresh_page is one  *)
(* step here: every behaviour of the model is a behaviour of the code.      *)
(* Before the threads start, one caller allocates and frees pages.          *)
(***************************************************************************)
\* the file holds at most MaxRacePages pages before the threads start
MaxRacePages == 3

RaceThreads == {1, 2}

\* the Pager after a call that returned or raised r
AfterCall(r) == [file |-> r.file, nf |-> r.nf, lru |-> r.lru, grave |-> r.grave]

SetPager(st) ==
    /\ file' = st.file
    /\ next_free_pageno' = st.nf
    /\ lru' = st.lru
    /\ grave' = st.grave

\* thread t goes on to pc
Continue(t, pc) == threads' = [threads EXCEPT ![t].pc = pc]

\* the call of thread t returns ret or raises err
Finish(t, ret, err) ==
    threads' = [threads EXCEPT ![t].pc = "done", ![t].ret = ret, ![t].err = err]

RaceSetupAlloc ==
    /\ threads = <<>>
    /\ next_free_pageno = 0 => Len(file) < MaxRacePages
    /\ PagerStep("alloc_page", None, "none", 0, alloc_page(PagerState))

RaceSetupFree ==
    /\ threads = <<>>
    /\ \E pageno \in allocated : FreePage(pageno)

\* the calls a thread can make: alloc_page, or free_page of a live page
RaceCalls == {[op |-> "alloc_page", arg |-> None]}
             \cup {[op |-> "free_page", arg |-> p] : p \in allocated}

\* two threads call the Pager, each freeing at most its own page
RaceStart ==
    /\ threads = <<>>
    /\ \E c1, c2 \in RaceCalls :
          /\ (c1.op = "free_page" /\ c2.op = "free_page") => c1.arg # c2.arg
          /\ threads' = [t \in RaceThreads |->
                           [pc |-> IF t = 1 THEN c1.op ELSE c2.op,
                            op |-> IF t = 1 THEN c1.op ELSE c2.op,
                            arg |-> IF t = 1 THEN c1.arg ELSE c2.arg,
                            pageno |-> None, data |-> None,
                            ret |-> None, err |-> "none"]]
    /\ pagerOp' = [name |-> "threads", start |-> PagerState]
    /\ UNCHANGED <<file, next_free_pageno, lru, grave, allocated, counterVars,
                   read_lock, write_lock, reader_count, waiters, codec>>

\* a step of thread t in Pager.alloc_page
Thread_alloc_page(t) ==
    \/ /\ threads[t].pc = "alloc_page"     \* if self.next_free_pageno != 0:
       /\ Continue(t, IF next_free_pageno # 0 THEN "alloc_pageno" ELSE "alloc_fresh")
       /\ UNCHANGED <<file, next_free_pageno, lru, grave>>
    \/ /\ threads[t].pc = "alloc_pageno"   \* pageno = self.next_free_pageno
       /\ threads' = [threads EXCEPT ![t].pc = "alloc_read",
                                     ![t].pageno = next_free_pageno]
       /\ UNCHANGED <<file, next_free_pageno, lru, grave>>
    \/ /\ threads[t].pc = "alloc_read"     \* data = unpack(self.read_page(pageno))
       /\ \E r \in {read_page(PagerState, threads[t].pageno)} :
             /\ SetPager(AfterCall(r))
             /\ IF r.err # "none" THEN Finish(t, None, r.err)
                ELSE IF r.ret.magic # "FREE" THEN Finish(t, None, "RuntimeError")
                ELSE threads' = [threads EXCEPT ![t].pc = "alloc_write_zero",
                                                ![t].data = r.ret.num]
    \/ /\ threads[t].pc = "alloc_write_zero"   \* self.write_page(0, data)
       /\ \E w \in {write_page(PagerState, 0, Pack("ZERO", threads[t].data))} :
             /\ SetPager(AfterCall(w))
             /\ IF w.err # "none" THEN Finish(t, None, w.err)
                ELSE Continue(t, "alloc_set_head")
    \/ /\ threads[t].pc = "alloc_set_head"     \* self.next_free_pageno = pageno
       /\ next_free_pageno' = threads[t].data
       /\ Finish(t, threads[t].pageno, "none")
       /\ UNCHANGED <<file, lru, grave>>
    \/ /\ threads[t].pc = "alloc_fresh"        \* pageno = self._alloc_fresh_page()
       /\ \E r \in {alloc_fresh_page(PagerState)} :
             /\ SetPager(AfterCall(r))
             /\ Finish(t, r.ret, r.err)

\* a step of thread t in Pager.free_page
Thread_free_page(t) ==
    \/ /\ threads[t].pc = "free_page"      \* self.cache.delete(pageno)
       /\ \E c \in {cache_delete(lru, grave, threads[t].arg)} :
             /\ lru' = c.lru
             /\ grave' = c.grave
       /\ Continue(t, "free_pack")
       /\ UNCHANGED <<file, next_free_pageno>>
    \/ /\ threads[t].pc = "free_pack"      \* pack(FREE_MAGIC, self.next_free_pageno)
       /\ threads' = [threads EXCEPT ![t].pc = "free_write",
                                     ![t].data = next_free_pageno]
       /\ UNCHANGED <<file, next_free_pageno, lru, grave>>
    \/ /\ threads[t].pc = "free_write"     \* self.write_page(pageno, data)
       /\ \E w \in {write_page(PagerState, threads[t].arg,
                               Pack("FREE", threads[t].data))} :
             /\ SetPager(AfterCall(w))
             /\ IF w.err # "none" THEN Finish(t, None, w.err)
                ELSE Continue(t, "free_write_zero")
    \/ /\ threads[t].pc = "free_write_zero"    \* self.write_page(0, data)
       /\ \E w \in {write_page(PagerState, 0, Pack("ZERO", threads[t].arg))} :
             /\ SetPager(AfterCall(w))
             /\ IF w.err # "none" THEN Finish(t, None, w.err)
                ELSE Continue(t, "free_set_head")
    \/ /\ threads[t].pc = "free_set_head"      \* self.next_free_pageno = pageno
       /\ next_free_pageno' = threads[t].arg
       /\ Finish(t, None, "none")
       /\ UNCHANGED <<file, lru, grave>>

RaceFrame ==
    UNCHANGED <<treeVars, counterVars, pagerOp, allocated,
                read_lock, write_lock, reader_count, waiters, codec>>

RaceNext ==
    \/ RaceSetupAlloc /\ UNCHANGED treeVars
    \/ RaceSetupFree /\ UNCHANGED treeVars
    \/ RaceStart /\ UNCHANGED treeVars
    \/ \E t \in RaceThreads : threads # <<>> /\ Thread_alloc_page(t) /\ RaceFrame
    \/ \E t \in RaceThreads : threads # <<>> /\ Thread_free_page(t) /\ RaceFrame

RaceSpec == PagerSpecInit /\ [][RaceNext]_vars

\* the call of thread t made alone on the Pager st
CallOf(t, st) ==
    IF threads[t].op = "alloc_page" THEN alloc_page(st)
    ELSE free_page(st, threads[t].arg)

\* the file, the head and what the two calls returned are those of the call
\* of t followed by the call of u
SerialOrder(t, u) ==
    \E r1 \in {CallOf(t, pagerOp.start)} :
       \E r2 \in {CallOf(u, AfterCall(r1))} :
          /\ file = r2.file
          /\ next_free_pageno = r2.nf
          /\ threads[t].err = r1.err
          /\ threads[u].err = r2.err
          /\ threads[t].ret = r1.ret
          /\ threads[u].ret = r2.ret

(***************************************************************************)
(* C26  alloc_page and free_page are atomic with respect to each other:     *)
(* when two threads have each run one of them, the file, the head of the    *)
(* free list and the values returned are those of the two calls made one    *)
(* after the other in some order; no page is returned by both allocations   *)
(* and every page freed is on the free list.                                *)
(***************************************************************************)
C26_PagerCallsAtomic ==
    (threads # <<>> /\ \A t \in RaceThreads : threads[t].pc = "done") =>
       /\ SerialOrder(1, 2) \/ SerialOrder(2, 1)
       /\ (\A t \in RaceThreads :
              threads[t].op = "alloc_page" /\ threads[t].err = "none")
          => threads[1].ret # threads[2].ret
       /\ \A t \in RaceThreads :
             (threads[t].op = "free_page" /\ threads[t].err = "none")
             => threads[t].arg \in FreePages

(***************************************************************************)
(* LRUCache used by two threads.  get runs under rwlock.read_access and     *)
(* set under rwlock.write_access (cache.py:69, 92); the threads go through  *)
(* the steps of the ReadWriteLock above.  Inside its with block a get is a  *)
(* sequence of dictionary operations and counter updates, and               *)
(* `self.hits += 1` is a load, an addition and a store of the attribute,    *)
(* between which another thread can run.  The body of set is one step.      *)
(* Evicted values stay alive.                                               *)
(***************************************************************************)
GetThreads == {1, 2}

\* the statements of the body of LRUCache.get
GetBody == {"get_hits", "get_hits_store", "get_grave_pop", "get_insert",
            "get_resurrections", "get_resurrections_store", "get_misses",
            "get_misses_store", "get_move_to_end"}

\* t is inside a with block of the lock
InWithBlock(t) ==
    ReadAccess(t) \/ WriteAccess(t) \/ threads[t].pc \in GetBody

NoLocals == [pc |-> "idle", op |-> "none", key |-> None, value |-> None, tmp |-> 0]

\* the get calls begun
GetsBegun ==
    cacheOp.gets + Cardinality({t \in GetThreads : threads[t].op = "get"})

\* a thread calls cache.get(key) or cache.set(key, value)
CacheCall(t) ==
    /\ At(t, "idle")
    /\ \/ /\ GetsBegun < MaxGets
          /\ \E key \in CacheKeys :
                threads' = [threads EXCEPT ![t] = [pc |-> "acquire_read", op |-> "get",
                                                   key |-> key, value |-> None,
                                                   tmp |-> 0]]
       \/ \E key \in CacheKeys :
             threads' = [threads EXCEPT ![t] = [pc |-> "acquire_write", op |-> "set",
                                                key |-> key, value |-> 1,
                                                tmp |-> 0]]
    /\ UNCHANGED <<lru, grave, hits, misses, resurrections, cacheOp,
                   read_lock, write_lock, reader_count, waiters>>

\* a step of thread t in the with block of LRUCache.get
Thread_get(t) ==
    /\ threads[t].op = "get"
    /\ \/ /\ At(t, "reading")                  \* value = self.lru[key]
          /\ IF threads[t].key \in LruKeys(lru)
             THEN threads' = [threads EXCEPT ![t].pc = "get_hits",
                                 ![t].value = LruValue(lru, threads[t].key)]
             ELSE Goto(t, "get_grave_pop")
          /\ UNCHANGED <<lru, grave, hits, misses, resurrections>>
       \/ /\ At(t, "get_hits")                 \* self.hits += 1: load
          /\ threads' = [threads EXCEPT ![t].pc = "get_hits_store", ![t].tmp = hits]
          /\ UNCHANGED <<lru, grave, hits, misses, resurrections>>
       \/ /\ At(t, "get_hits_store")           \* self.hits += 1: store
          /\ hits' = threads[t].tmp + 1
          /\ threads' = [threads EXCEPT ![t].pc = "get_move_to_end", ![t].tmp = 0]
          /\ UNCHANGED <<lru, grave, misses, resurrections>>
       \/ /\ At(t, "get_grave_pop")            \* value = self.grave.pop(key, None)
          /\ grave' = GraveDrop(grave, threads[t].key)
          /\ IF threads[t].key \in DOMAIN grave
             THEN threads' = [threads EXCEPT ![t].pc = "get_insert",
                                 ![t].value = grave[threads[t].key]]
             ELSE Goto(t, "get_misses")
          /\ UNCHANGED <<lru, hits, misses, resurrections>>
       \/ /\ At(t, "get_insert")               \* self.lru[key] = value
          /\ lru' = IF threads[t].key \in LruKeys(lru)
                    THEN [lru EXCEPT ![LruIndex(lru, threads[t].key)] =
                             <<threads[t].key, threads[t].value>>]
                    ELSE Append(lru, <<threads[t].key, threads[t].value>>)
          /\ Goto(t, "get_resurrections")
          /\ UNCHANGED <<grave, hits, misses, resurrections>>
       \/ /\ At(t, "get_resurrections")        \* self.resurrections += 1: load
          /\ threads' = [threads EXCEPT ![t].pc = "get_resurrections_store",
                                        ![t].tmp = resurrections]
          /\ UNCHANGED <<lru, grave, hits, misses, resurrections>>
       \/ /\ At(t, "get_resurrections_store")  \* self.resurrections += 1: store
          /\ resurrections' = threads[t].tmp + 1
          /\ threads' = [threads EXCEPT ![t].pc = "get_move_to_end", ![t].tmp = 0]
          /\ UNCHANGED <<lru, grave, hits, misses>>
       \/ /\ At(t, "get_misses")               \* self.misses += 1: load
          /\ threads' = [threads EXCEPT ![t].pc = "get_misses_store", ![t].tmp = misses]
          /\ UNCHANGED <<lru, grave, hits, misses, resurrections>>
       \/ /\ At(t, "get_misses_store")         \* store; return default
          /\ misses' = threads[t].tmp + 1
          /\ threads' = [threads EXCEPT ![t].pc = "release_read", ![t].tmp = 0]
          /\ UNCHANGED <<lru, grave, hits, resurrections>>
       \/ /\ At(t, "get_move_to_end")          \* self.lru.move_to_end(key)
          /\ threads[t].key \in LruKeys(lru)
          /\ lru' = Append(LruDrop(lru, threads[t].key),
                           <<threads[t].key, LruValue(lru, threads[t].key)>>)
          /\ Goto(t, "release_read")
          /\ UNCHANGED <<grave, hits, misses, resurrections>>
    /\ UNCHANGED <<cacheOp, read_lock, write_lock, reader_count, waiters>>

\* the with block of LRUCache.set, run by thread t
Thread_set(t) ==
    /\ threads[t].op = "set"
    /\ At(t, "writing")
    /\ \E r \in {cache_set(lru, grave, DOCTEST_MAXSIZE, TRUE,
                           threads[t].key, threads[t].value)} :
          /\ lru' = r.lru
          /\ grave' = r.grave
    /\ Goto(t, "release_write")
    /\ UNCHANGED <<hits, misses, resurrections, cacheOp,
                   read_lock, write_lock, reader_count, waiters>>

\* get or set returns to thread t
CacheReturn(t) ==
    /\ At(t, "released")
    /\ cacheOp' = [cacheOp EXCEPT !.gets = IF threads[t].op = "get" THEN @ + 1 ELSE @]
    /\ threads' = [threads EXCEPT ![t] = NoLocals]
    /\ UNCHANGED <<lru, grave, hits, misses, resurrections,
                   read_lock, write_lock, reader_count, waiters>>

GetFrame ==
    UNCHANGED <<treeVars, file, next_free_pageno, pagerOp, allocated, codec>>

LockCacheFrame ==
    UNCHANGED <<treeVars, file, next_free_pageno, pagerOp, allocated,
                lru, grave, counterVars, codec>>

GetNext ==
    \/ \E t \in GetThreads : CacheCall(t) /\ GetFrame
    \/ \E t \in GetThreads : acquire_read(t) /\ LockCacheFrame
    \/ \E t \in GetThreads : Thread_get(t) /\ GetFrame
    \/ \E t \in GetThreads : release_read(t) /\ LockCacheFrame
    \/ \E t \in GetThreads : acquire_write(t) /\ LockCacheFrame
    \/ \E t \in GetThreads : Thread_set(t) /\ GetFrame
    \/ \E t \in GetThreads : release_write(t) /\ LockCacheFrame
    \/ \E t \in GetThreads : CacheReturn(t) /\ GetFrame

GetSpecInit ==
    /\ TreeIdle
    /\ PagerInit
    /\ ReadWriteLock_init
    /\ threads = [t \in GetThreads |-> NoLocals]

GetSpec == GetSpecInit /\ [][GetNext]_vars

(***************************************************************************)
(* C27  The cache is mutated only under exclusive access: a step that       *)
(* changes the LRU, the graveyard or a counter is taken while no other      *)
(* thread is inside a with block of the lock; when no call is in progress   *)
(* hits + misses + resurrections is the number of get calls completed, and  *)
(* a resurrection inserts a key that is not in the LRU.                     *)
(***************************************************************************)
C27_MutationsExclusive ==
    [][/\ (<<lru, grave, hits, misses, resurrections>>'
              # <<lru, grave, hits, misses, resurrections>>)
          => Cardinality({t \in GetThreads : InWithBlock(t)}) = 1
       /\ (\A t \in GetThreads : At(t, "idle")')
          => hits' + misses' + resurrections' = cacheOp'.gets
       /\ \A t \in GetThreads :
             (At(t, "get_insert") /\ At(t, "get_resurrections")')
             => threads[t].key \notin LruKeys(lru)]_vars

(***************************************************************************)
(* Page objects (pager.py:34-269).  A bytes value is a sequence of runs     *)
(* <<byte, count>>, count > 0, with no two neighbouring runs of the same    *)
(* byte: b"\x00" * 4084 is <<<<0, 4084>>>>.  A field of a Struct is its     *)
(* format character and its width in bytes.  A Python value is PyInt(n),    *)
(* PyBytes(s) or PyNone.                                                    *)
(***************************************************************************)
RECURSIVE Norm(_)
Norm(s) ==
    IF s = <<>> THEN <<>>
    ELSE IF s[1][2] = 0 THEN Norm(Tail(s))
    ELSE IF Len(s) = 1 THEN s
    ELSE IF s[2][2] = 0 THEN Norm(<<s[1]>> \o Tail(Tail(s)))
    ELSE IF s[1][1] = s[2][1]
    THEN Norm(<<<<s[1][1], s[1][2] + s[2][2]>>>> \o Tail(Tail(s)))
    ELSE <<s[1]>> \o Norm(Tail(s))

\* len(s)
RECURSIVE BLen(_)
BLen(s) == IF s = <<>> THEN 0 ELSE s[1][2] + BLen(Tail(s))

\* s[:n]
RECURSIVE BTake(_, _)
BTake(s, n) ==
    IF n <= 0 \/ s = <<>> THEN <<>>
    ELSE IF s[1][2] <= n THEN <<s[1]>> \o BTake(Tail(s), n - s[1][2])
    ELSE <<<<s[1][1], n>>>>

\* s[n:]
RECURSIVE BDrop(_, _)
BDrop(s, n) ==
    IF n <= 0 \/ s = <<>> THEN s
    ELSE IF s[1][2] <= n THEN BDrop(Tail(s), n - s[1][2])
    ELSE <<<<s[1][1], s[1][2] - n>>>> \o Tail(s)

\* a + b
BCat(a, b) == Norm(a \o b)

\* s[i:j]
BSlice(s, i, j) == IF j <= i THEN <<>> ELSE BTake(BDrop(s, i), j - i)

\* the bytearray s after s[i:j] = d: the bytes from i up to j (none when
\* j <= i) are replaced by d, whatever the length of d
BAssign(s, i, j, d) ==
    BCat(BCat(BTake(s, i), d), BDrop(s, IF j < i THEN i ELSE j))

\* bytes([b]) * n
Rep(b, n) == IF n <= 0 THEN <<>> ELSE <<<<b, n>>>>

\* the bytes of s one by one
RECURSIVE Expand(_)
Expand(s) ==
    IF s = <<>> THEN <<>>
    ELSE IF s[1][2] = 1 THEN <<s[1][1]>> \o Expand(Tail(s))
    ELSE <<s[1][1]>> \o Expand(<<<<s[1][1], s[1][2] - 1>>>> \o Tail(s))

\* bytes literal
Literal(bs) == Norm([i \in 1..Len(bs) |-> <<bs[i], 1>>])

RECURSIVE Pow256(_)
Pow256(n) == IF n = 0 THEN 1 ELSE 256 * Pow256(n - 1)

\* struct: an unsigned integer in n bytes, big-endian ("!I", "!H")
BigEndian(v, n) == Literal([i \in 1..n |-> (v \div Pow256(n - i)) % 256])

\* struct: the unsigned big-endian integer that the bytes s are
RECURSIVE FromBigEndian(_)
FromBigEndian(bs) ==
    IF bs = <<>> THEN 0
    ELSE bs[1] * Pow256(Len(bs) - 1) + FromBigEndian(Tail(bs))

PyInt(n) == [t |-> "int", v |-> n]
PyBytes(s) == [t |-> "bytes", v |-> s]
PyNone == [t |-> "None", v |-> 0]

Field(c, n) == [c |-> c, n |-> n]

\* Struct.size
RECURSIVE StructSize(_)
StructSize(fmt) == IF fmt = <<>> THEN 0 ELSE fmt[1].n + StructSize(Tail(fmt))

\* the fields of fmt that take a value: all but the pad bytes "x"
Valued(fmt) == SelectSeq(fmt, LAMBDA f : f.c # "x")

\* Struct.unpack(data), for data of Struct.size bytes: a value for each
\* field but the pad bytes, which are skipped
RECURSIVE Struct_unpack(_, _)
Struct_unpack(fmt, data) ==
    IF fmt = <<>> THEN <<>>
    ELSE LET f == fmt[1]
             rest == Struct_unpack(Tail(fmt), BDrop(data, f.n))
         IN  IF f.c = "x" THEN rest
             ELSE IF f.c = "s" THEN <<PyBytes(BTake(data, f.n))>> \o rest
             ELSE <<PyInt(FromBigEndian(Expand(BTake(data, f.n))))>> \o rest

\* the bytes of the values vs in the fields of fmt, one value for each
\* field but the pad bytes
RECURSIVE PackFields(_, _)
PackFields(fmt, vs) ==
    IF fmt = <<>> THEN <<>>
    ELSE LET f == fmt[1]
         IN  IF f.c = "x" THEN BCat(Rep(0, f.n), PackFields(Tail(fmt), vs))
             ELSE IF f.c = "s"
             THEN BCat(BCat(BTake(vs[1].v, f.n), Rep(0, f.n - BLen(vs[1].v))),
                       PackFields(Tail(fmt), Tail(vs)))
             ELSE BCat(BigEndian(vs[1].v, f.n), PackFields(Tail(fmt), Tail(vs)))

\* Struct.pack(*vs): struct.error when the number of values is not the
\* number of fields, when a value has not the type of its field or when an
\* integer does not fit; "s" cuts or zero-fills its bytes to the width
Struct_pack(fmt, vs) ==
    IF Len(vs) # Len(Valued(fmt))
    THEN [bytes |-> <<>>, err |-> "struct.error"]
    ELSE IF \E i \in 1..Len(vs) :
               \/ Valued(fmt)[i].c = "s" /\ vs[i].t # "bytes"
               \/ Valued(fmt)[i].c # "s" /\ vs[i].t # "int"
               \/ /\ Valued(fmt)[i].c # "s"
                  /\ vs[i].t = "int"
                  /\ vs[i].v \div Pow256(Valued(fmt)[i].n - 1) >= 256
    THEN [bytes |-> <<>>, err |-> "struct.error"]
    ELSE [bytes |-> PackFields(fmt, vs), err |-> "none"]

FreePage_MAGIC == Literal(<<220, 70, 82, 69, 69, 80, 71, 186>>)
OverflowPage_MAGIC == Literal(<<111, 86, 101, 82, 102, 76, 111, 87>>)
ZeroPage_MAGIC == Literal(<<171, 90, 69, 82, 79, 80, 71, 205>>)

\* Struct("! 8s I 4084x")
FreePage_STRUCT == <<Field("s", 8), Field("I", 4), Field("x", 4084)>>
\* Struct("! 8s I 4084x")
OverflowPage_STRUCT == <<Field("s", 8), Field("I", 4), Field("x", 4084)>>
\* Struct("! 8s I I I I H 4070s")
ZeroPage_STRUCT == <<Field("s", 8), Field("I", 4), Field("I", 4), Field("I", 4),
                     Field("I", 4), Field("H", 2), Field("s", 4070)>>

PageKinds == {"FreePage", "OverflowPage", "ZeroPage"}

MAGIC(cls) ==
    IF cls = "FreePage" THEN FreePage_MAGIC
    ELSE IF cls = "OverflowPage" THEN OverflowPage_MAGIC
    ELSE ZeroPage_MAGIC

STRUCT(cls) ==
    IF cls = "FreePage" THEN FreePage_STRUCT
    ELSE IF cls = "OverflowPage" THEN OverflowPage_STRUCT
    ELSE ZeroPage_STRUCT

OverflowPage_HEADERSIZE == 12
OverflowPage_DATASIZE == PAGESIZE - OverflowPage_HEADERSIZE

\* cls(*args): the attributes of the new object, or TypeError when the
\* arguments are not those of cls.__init__.  ZeroPage.__init__ hands its
\* overflow_data argument on to OverflowPage.__init__, which stores it over
\* the bytearray made before.
Page_new(cls, args) ==
    IF cls = "FreePage"
    THEN IF Len(args) # 1 THEN [obj |-> <<>>, err |-> "TypeError"]
         ELSE [obj |-> [cls |-> cls, next_free_pageno |-> args[1]], err |-> "none"]
    ELSE IF cls = "OverflowPage"
    THEN IF Len(args) # 2 THEN [obj |-> <<>>, err |-> "TypeError"]
         ELSE [obj |-> [cls |-> cls, next_overflow_pageno |-> args[1],
                        overflow_data |-> args[2]],
               err |-> "none"]
    ELSE IF Len(args) > 6 THEN [obj |-> <<>>, err |-> "TypeError"]
    ELSE LET arg(i, default) == IF i <= Len(args) THEN args[i] ELSE default
         IN  [obj |-> [cls |-> cls,
                       root_pageno |-> arg(1, PyInt(0)),
                       next_free_pageno |-> arg(2, PyInt(0)),
                       next_overflow_pageno |-> arg(3, PyInt(0)),
                       current_overflow_pageno |-> arg(4, PyInt(0)),
                       current_overflow_offset |-> arg(5, PyInt(0)),
                       overflow_data |-> arg(6, PyNone)],
              err |-> "none"]

\* Page.get_fields
get_fields(cls, data) ==
    IF BLen(data) # PAGESIZE THEN [fields |-> <<>>, err |-> "ValueError"]
    ELSE LET fields == Struct_unpack(STRUCT(cls), data)
         IN  IF fields[1] # PyBytes(MAGIC(cls))
             THEN [fields |-> <<>>, err |-> "ValueError"]
             ELSE [fields |-> fields, err |-> "none"]

\* Page.from_page
from_page(cls, data) ==
    LET g == get_fields(cls, data)
    IN  IF g.err # "none" THEN [obj |-> <<>>, err |-> g.err]
        ELSE Page_new(cls, Tail(g.fields))

\* FreePage.pack, OverflowPage.pack, ZeroPage.pack
pack(obj) ==
    IF obj.cls = "FreePage"
    THEN Struct_pack(FreePage_STRUCT,
                     <<PyBytes(FreePage_MAGIC), obj.next_free_pageno>>)
    ELSE IF obj.cls = "OverflowPage"
    THEN Struct_pack(OverflowPage_STRUCT,
                     <<PyBytes(OverflowPage_MAGIC), obj.next_overflow_pageno,
                       obj.overflow_data>>)
    ELSE Struct_pack(ZeroPage_STRUCT,
                     <<PyBytes(ZeroPage_MAGIC), obj.root_pageno, obj.next_free_pageno,
                       obj.next_overflow_pageno, obj.current_overflow_pageno,
                       obj.current_overflow_offset, obj.overflow_data>>)

(***************************************************************************)
(* A caller decodes a page with from_page and encodes the object with pack. *)
(* The pages are the encoded pages of each kind, for some values of their   *)
(* fields, and pages that are not valid: one byte short, one byte long,     *)
(* empty, and a free page with bytes other than zero after its fields.      *)
(***************************************************************************)
\* page numbers: none, small, two bytes, four bytes
PageNumbers == {0, 1, 258, 2147483647}

\* a length-prefixed value followed by zeros, and the same byte throughout
Payloads(n) ==
    {Rep(0, n), Rep(7, n),
     BCat(BCat(BigEndian(3, 4), Literal(<<97, 98, 99>>)), Rep(0, n - 7))}

\* the encoded pages of the class
ValidPages(cls) ==
    IF cls = "FreePage"
    THEN {BCat(BCat(FreePage_MAGIC, BigEndian(n, 4)), Rep(0, 4084)) :
             n \in PageNumbers}
    ELSE IF cls = "OverflowPage"
    THEN {BCat(BCat(OverflowPage_MAGIC, BigEndian(n, 4)), d) :
             n \in PageNumbers, d \in Payloads(OverflowPage_DATASIZE)}
    ELSE {BCat(BCat(BCat(ZeroPage_MAGIC,
                         BCat(BigEndian(h[1], 4), BigEndian(h[2], 4))),
                    BCat(BCat(BigEndian(h[3], 4), BigEndian(h[4], 4)),
                         BigEndian(h[5], 2))),
               d) :
             h \in {<<0, 0, 0, 0, 0>>, <<1, 2, 3, 4, 5>>,
                    <<2147483647, 258, 1, 0, 65535>>},
             d \in Payloads(4070)}

CodecData ==
    UNION {ValidPages(cls) : cls \in PageKinds}
    \cup {BTake(d, PAGESIZE - 1) : d \in ValidPages("FreePage")}
    \cup {BCat(d, Rep(0, 1)) : d \in ValidPages("FreePage")}
    \cup {<<>>,
          BCat(BCat(FreePage_MAGIC, BigEndian(1, 4)), Rep(1, 4084))}

\* obj = cls.from_page(data)
FromPage(cls, data) ==
    \E r \in {from_page(cls, data)} :
       codec' = [name |-> "from_page", cls |-> cls, data |-> data,
                 obj |-> r.obj, out |-> <<>>, err |-> r.err]

\* obj.pack(), for the object that from_page returned
PackPage ==
    /\ codec.name = "from_page"
    /\ codec.err = "none"
    /\ \E r \in {pack(codec.obj)} :
          codec' = [codec EXCEPT !.name = "pack", !.out = r.bytes, !.err = r.err]

CodecFrame == UNCHANGED <<treeVars, pagerVars, counterVars, lockVars>>

CodecNext ==
    \/ \E cls \in PageKinds : \E data \in CodecData : FromPage(cls, data) /\ CodecFrame
    \/ PackPage /\ CodecFrame

CodecSpec == PagerSpecInit /\ [][CodecNext]_vars

(***************************************************************************)
(* C29  Page codec round-trip: from_page of a valid page of its kind        *)
(* returns an object, and pack of that object gives the same PAGESIZE       *)
(* bytes; from_page of data that is not PAGESIZE bytes long, or that begins *)
(* with another magic than the kind's, raises ValueError.                   *)
(***************************************************************************)
C29_CodecRoundTrip ==
    /\ (codec.name = "from_page" /\ codec.data \in ValidPages(codec.cls))
       => codec.err = "none"
    /\ (codec.name = "pack" /\ codec.data \in ValidPages(codec.cls))
       => /\ codec.err = "none"
          /\ BLen(codec.out) = PAGESIZE
          /\ codec.out = codec.data
    /\ (/\ codec.name = "from_page"
        /\ \/ BLen(codec.data) # PAGESIZE
           \/ BTake(codec.data, 8) # MAGIC(codec.cls))
       => codec.err = "ValueError"

(***************************************************************************)
(* Overflow values (pager.py:130-211, 447-467).  The repository has no      *)
(* method that writes an overflow value; OverflowPage.write_start and       *)
(* write_continue fill page objects and leave it to the caller to allocate  *)
(* and link the pages (pager.py:160, 201).  The caller here does that:      *)
(* alloc_page and write_start for the first page, alloc_page and            *)
(* write_continue for each further page, then pack and write_page for each  *)
(* page, and read_overflow to read the value back.                          *)
(***************************************************************************)
\* util.length_prefix
length_prefix(data) == BCat(BigEndian(BLen(data), 4), data)

\* OverflowPage.write_start: the page object afterwards and the bytes that
\* did not fit (more is FALSE when write_start returns None)
write_start(obj, data, offset) ==
    LET d == length_prefix(data)
        end == offset + BLen(d)
        split == OverflowPage_DATASIZE - offset
    IN  IF end > OverflowPage_DATASIZE
        THEN [obj |-> [obj EXCEPT !.overflow_data =
                          PyBytes(BAssign(@.v, offset, split, BTake(d, split)))],
              rest |-> BDrop(d, split), more |-> TRUE]
        ELSE [obj |-> [obj EXCEPT !.overflow_data =
                          PyBytes(BAssign(@.v, offset, end, d))],
              rest |-> <<>>, more |-> FALSE]

\* OverflowPage.write_continue
write_continue(obj, data) ==
    IF BLen(data) <= OverflowPage_DATASIZE
    THEN [obj |-> [obj EXCEPT !.overflow_data =
                      PyBytes(BAssign(@.v, 0, BLen(data), data))],
          rest |-> <<>>, more |-> FALSE]
    ELSE [obj |-> [obj EXCEPT !.overflow_data =
                      PyBytes(BAssign(@.v, 0, BLen(data),
                                      BTake(data, OverflowPage_DATASIZE)))],
          rest |-> BDrop(data, OverflowPage_DATASIZE), more |-> TRUE]

\* OverflowPage.read_continue: the bytes read and the number still to read
read_continue(obj, offset, size) ==
    IF offset = OverflowPage_DATASIZE
    THEN [data |-> <<>>, togo |-> size, err |-> "none"]
    ELSE IF offset + size > OverflowPage_DATASIZE
    THEN [data |-> BSlice(obj.overflow_data.v, offset, OverflowPage_DATASIZE),
          togo |-> offset + size - OverflowPage_DATASIZE, err |-> "none"]
    ELSE [data |-> BSlice(obj.overflow_data.v, offset, offset + size),
          togo |-> 0, err |-> "none"]

\* OverflowPage.read_start
read_start(obj, offset) ==
    IF offset >= OverflowPage_DATASIZE - 4
    THEN [data |-> <<>>, togo |-> 0, err |-> "ValueError"]
    ELSE IF BLen(obj.overflow_data.v) < offset + 4
    THEN [data |-> <<>>, togo |-> 0, err |-> "struct.error"]
    ELSE read_continue(obj, offset + 4,
             FromBigEndian(Expand(BSlice(obj.overflow_data.v, offset, offset + 4))))

\* self.get_page(pageno): Pager has no attribute get_page
get_page(st, pageno) == Ret(st, None, "AttributeError")

\* the while loop of Pager.read_overflow
RECURSIVE read_overflow_loop(_, _, _, _)
read_overflow_loop(st, obj, data, togo) ==
    IF togo > 0
    THEN LET g == get_page(st, obj.next_overflow_pageno.v)
         IN  IF g.err # "none" THEN g
             ELSE LET page == from_page("OverflowPage", g.ret)
                  IN  IF page.err # "none" THEN Ret(AfterCall(g), None, page.err)
                      ELSE LET r == read_continue(page.obj, 0, togo)
                           IN  read_overflow_loop(AfterCall(g), page.obj,
                                                  BCat(data, r.data), r.togo)
    ELSE Ret(st, data, "none")

\* Pager.read_overflow
read_overflow(st, pageno, offset) ==
    LET g == get_page(st, pageno)
    IN  IF g.err # "none" THEN g
        ELSE LET page == from_page("OverflowPage", g.ret)
             IN  IF page.err # "none" THEN Ret(AfterCall(g), None, page.err)
                 ELSE LET r == read_start(page.obj, offset)
                      IN  IF r.err # "none" THEN Ret(AfterCall(g), None, r.err)
                          ELSE read_overflow_loop(AfterCall(g), page.obj,
                                                  r.data, r.togo)

\* the file holds at most MaxOverflowPages pages
MaxOverflowPages == 7

\* values shorter than the payload of a page, filling it with their length
\* prefix, one byte longer, and of two and three pages
OverflowValues ==
    {Literal(<<97, 98, 99>>), Rep(120, 4080), Rep(120, 4081), Rep(120, 5000),
     BCat(Rep(120, 4500), Rep(121, 4500))}

\* offsets that leave room for the length prefix
OverflowOffsets == {0, 100, 3000, 4079}

\* OverflowPage(0, bytearray(DATASIZE))
BlankOverflowPage ==
    Page_new("OverflowPage", <<PyInt(0), PyBytes(Rep(0, OverflowPage_DATASIZE))>>).obj

\* the caller starts to write the value b at offset of a new page
WriteStart(b, offset) ==
    /\ codec.name \in {"init", "read_overflow"}
    /\ Len(file) + 3 <= MaxOverflowPages
    /\ \E a \in {alloc_page(PagerState)} :
          /\ a.err = "none"
          /\ SetPager(AfterCall(a))
          /\ \E w \in {write_start(BlankOverflowPage, b, offset)} :
                codec' = [name |-> "write_start", value |-> b, offset |-> offset,
                          first |-> a.ret, pageno |-> a.ret, page |-> w.obj,
                          pages |-> <<>>, rest |-> w.rest, more |-> w.more,
                          ret |-> None, err |-> "none"]

\* the caller allocates the next page, links it and goes on writing
WriteContinue ==
    /\ codec.name \in {"write_start", "write_continue"}
    /\ codec.more
    /\ \E a \in {alloc_page(PagerState)} :
          /\ a.err = "none"
          /\ SetPager(AfterCall(a))
          /\ \E w \in {write_continue(BlankOverflowPage, codec.rest)} :
                codec' = [codec EXCEPT
                            !.name = "write_continue",
                            !.pages = Append(@, [pageno |-> codec.pageno,
                                                 page |-> [codec.page EXCEPT
                                                    !.next_overflow_pageno =
                                                        PyInt(a.ret)]]),
                            !.pageno = a.ret, !.page = w.obj,
                            !.rest = w.rest, !.more = w.more]

\* the caller packs the pages and writes them to the file; an exception
\* ends the call
WritePages ==
    /\ codec.name \in {"write_start", "write_continue"}
    /\ ~ codec.more
    /\ \E p \in {pack(IF codec.pages = <<>> THEN codec.page
                      ELSE codec.pages[1].page)} :
          IF p.err # "none"
          THEN /\ codec' = [codec EXCEPT !.name = "pack", !.err = p.err]
               /\ UNCHANGED <<file, next_free_pageno, lru, grave>>
          ELSE /\ codec' = [codec EXCEPT !.name = "pack"]
               /\ \E w \in {write_page(PagerState, codec.first,
                                       [magic |-> "oVeRfLoW", num |-> p.bytes,
                                        rest |-> p.bytes, size |-> BLen(p.bytes)])} :
                     SetPager(AfterCall(w))

\* the caller reads the value back
ReadOverflow ==
    /\ codec.name = "pack"
    /\ \E r \in {read_overflow(PagerState, codec.first, codec.offset)} :
          /\ SetPager(AfterCall(r))
          /\ codec' = [codec EXCEPT !.name = "read_overflow",
                                    !.ret = r.ret, !.err = r.err]

OverflowFrame ==
    UNCHANGED <<treeVars, pagerOp, allocated, counterVars, lockVars>>

OverflowNext ==
    \/ \E b \in OverflowValues : \E offset \in OverflowOffsets :
          WriteStart(b, offset) /\ OverflowFrame
    \/ WriteContinue /\ OverflowFrame
    \/ WritePages /\ OverflowFrame
    \/ ReadOverflow /\ OverflowFrame

OverflowSpec == PagerSpecInit /\ [][OverflowNext]_vars

(***************************************************************************)
(* C28  Overflow length preservation: writing a value b as an overflow      *)
(* value succeeds, and read_overflow with the page and the offset at which  *)
(* it was written returns exactly b.                                        *)
(***************************************************************************)
C28_OverflowRoundTrip ==
    /\ codec.name = "pack" => codec.err = "none"
    /\ codec.name = "read_overflow" =>
          /\ codec.err = "none"
          /\ codec.ret = codec.value

(***************************************************************************)
(* The tree under load and churn: one disk_btree.BPlusTree of even ORDER   *)
(* is filled with the keys of AssertLoad in that order, and the smallest   *)
(* keys are deleted and put again at any point.                            *)
(***************************************************************************)
\* keys 1..MaxChurnKey are deleted and put again
MaxChurnKey == 3

\* the order in which the keys are first put
AssertLoad == <<1, 2, 3, 4, 7, 8, 5, 9, 10, 11, 12, 6>>

AssertKeys == {AssertLoad[i] : i \in DOMAIN AssertLoad}

ChurnKeys == 1..MaxChurnKey

\* the tree holds exactly the first n keys of AssertLoad
Loaded(n) ==
    {k \in AssertKeys : shadow[k] # None} = {AssertLoad[i] : i \in 1..n}

\* tree[key] = value with the next key of the load
LoadPut ==
    \E n \in 0..(Len(AssertLoad) - 1) :
        /\ Loaded(n)
        /\ Put(AssertLoad[n + 1], 1)

\* tree[key] = value with a key that may have been deleted
ChurnPut(key) == Put(key, 1)

\* del tree[key] with a key the tree holds
ChurnDelete(key) ==
    /\ shadow[key] # None
    /\ Delete(key)

AssertFrame == UNCHANGED <<pagerVars, counterVars, lockVars, codec>>

\* BPlusTree(4, pager)
AssertInit ==
    /\ impl = "disk"
    /\ ORDER = 4
    /\ heap = <<InteriorNode(<<>>, <<2>>), LeafNode(None, None)>>
    /\ root = 1
    /\ raised = "none"
    /\ lastOp = [name |-> "init", present |-> FALSE, ev |-> {}]
    /\ shadow = [k \in AssertKeys |-> None]
    /\ PagerInit
    /\ LockInit

AssertNext ==
    \/ LoadPut /\ AssertFrame
    \/ \E key \in ChurnKeys : ChurnPut(key) /\ AssertFrame
    \/ \E key \in ChurnKeys : ChurnDelete(key) /\ AssertFrame

AssertSpec == AssertInit /\ [][AssertNext]_vars

(***************************************************************************)
(* C30  No assertion of the tree code is ever tripped: no put and no        *)
(* delete of a present key ends in an AssertionError (the asserts of        *)
(* InteriorNode.split, rebalance_after_delete, borrow_right, borrow_left,   *)
(* merge and the leaf sibling links all hold).                              *)
(***************************************************************************)
C30_NoAssertionTripped ==
    (lastOp.name = "put" \/ (lastOp.name = "delete" /\ lastOp.present))
        => raised # "AssertionError"

(***************************************************************************)
(* InteriorNode.split on its own: an interior node that has just received  *)
(* its (MAX_KEYS + 1)-th key, over one leaf per child, is split once.       *)
(***************************************************************************)
\* disk_btree.BPlusTree is constructed with the orders 3..MaxSplitOrder
MaxSplitOrder == 6
\* the node's keys are drawn from 1..(ORDER + MaxSplitSlack)
MaxSplitSlack == 2

SplitConfigs ==
    {<<"memory", MEMORY_ORDER>>} \cup {<<"disk", o>> : o \in 3..MaxSplitOrder}

\* the ascending key lists of n keys; the keys are even so that a leaf can
\* hold a key between two of them
SplitKeyLists(n) ==
    {SetToSeq({2 * k : k \in S}) :
        S \in {T \in SUBSET (1..(n + MaxSplitSlack)) : Cardinality(T) = n}}

\* the leaf under child position j (1-based) of a node with these keys:
\* its entry is below keys[j] and not below keys[j - 1]
SplitLeaf(keys, j) ==
    [LeafNode(IF j = 1 THEN None ELSE j, IF j = Len(keys) + 1 THEN None ELSE j + 2)
        EXCEPT !.entries = <<Entry(IF j = 1 THEN keys[1] - 1 ELSE keys[j - 1], 1)>>]

\* object 1 is the interior node, objects 2.. are its leaves
SplitHeap(keys) ==
    [n \in 1..(Len(keys) + 2) |->
        IF n = 1 THEN InteriorNode(keys, [j \in 1..(Len(keys) + 1) |-> j + 1])
        ELSE SplitLeaf(keys, n - 1)]

SplitInit ==
    /\ \E c \in SplitConfigs : impl = c[1] /\ ORDER = c[2]
    /\ \E keys \in SplitKeyLists(ORDER) : heap = SplitHeap(keys)
    /\ root = 1
    /\ raised = "none"
    /\ lastOp = [name |-> "init", present |-> FALSE, ev |-> {}]
    /\ shadow = <<>>
    /\ PagerInit
    /\ LockInit

\* median, right_sib = node.split()
Split ==
    /\ lastOp.name = "init"
    /\ \E r \in {InteriorSplit(heap, root)} :
          /\ heap' = r.heap
          /\ raised' = IF IsRaise(r.status) THEN r.status ELSE "none"
          /\ lastOp' = [name |-> "split", present |-> FALSE, ev |-> r.ev,
                        median |-> IF IsRaise(r.status) THEN None ELSE r.median,
                        right |-> IF IsRaise(r.status) THEN None ELSE r.right]
    /\ UNCHANGED <<impl, ORDER, root, shadow>>

SplitNext ==
    Split /\ UNCHANGED <<pagerVars, counterVars, lockVars, codec>>

SplitSpec == SplitInit /\ [][SplitNext]_vars

(***************************************************************************)
(* C31  Interior split post-condition: splitting an interior node that      *)
(* holds MAX_KEYS + 1 keys returns; the median is a key of the node and is  *)
(* kept in neither half; both halves have one more child than keys; every   *)
(* key and every child subtree of the left half is smaller than the median  *)
(* and every one of the right half is not smaller; the left keys, the       *)
(* median and the right keys are the old keys in order, and the left and    *)
(* right children are the old children in order.                            *)
(***************************************************************************)
C31_InteriorSplitPost ==
    [][(lastOp'.name = "split" /\ Len(heap[root].keys) = MAX_KEYS + 1) =>
          /\ raised' = "none"
          /\ LET old == heap[root]
                 left == heap'[root]
                 right == heap'[lastOp'.right]
                 median == lastOp'.median
             IN  /\ median \in SeqRange(old.keys)
                 /\ median \notin SeqRange(left.keys) \cup SeqRange(right.keys)
                 /\ Len(left.children) = Len(left.keys) + 1
                 /\ Len(right.children) = Len(right.keys) + 1
                 /\ \A k \in SeqRange(left.keys) : k < median
                 /\ \A k \in SeqRange(right.keys) : k >= median
                 /\ \A c \in SeqRange(left.children) :
                       \A k \in SubtreeKeys(heap', c) : k < median
                 /\ \A c \in SeqRange(right.children) :
                       \A k \in SubtreeKeys(heap', c) : k >= median
                 /\ left.keys \o <<median>> \o right.keys = old.keys
                 /\ left.children \o right.children = old.children
                 /\ \A c \in SeqRange(old.children) : heap'[c] = heap[c]
    ]_vars

\* an interior node of disk_btree with an even ORDER was split
C31_Witness ==
    /\ lastOp.name = "split"
    /\ impl = "disk"
    /\ ORDER = 4
    /\ raised = "none"
    /\ Len(heap[root].keys) = 1
    /\ Len(heap[lastOp.right].keys) = 2

(***************************************************************************)
(* InteriorNode.rebalance_after_delete on its own: the root over up to     *)
(* MaxSiblings children, one of which has just lost a key and is below     *)
(* MIN_KEYS, repairs that child once.  The children are leaves, or         *)
(* interior nodes over leaves.                                              *)
(***************************************************************************)
\* the parent has 1..MaxSiblings children
MaxSiblings == 3

\* the number of keys (entries of a leaf, keys of an interior node)
Fill(h, n) == IF h[n].leaf THEN Len(h[n].entries) ELSE Len(h[n].keys)

\* the fills a sibling of the repaired child can have: MIN_KEYS..MAX_KEYS,
\* and one key less for an interior node left by an even-order split
SiblingFills(kind) ==
    IF kind = "interior" /\ impl = "disk" /\ ORDER % 2 = 0 /\ MIN_KEYS > 1
    THEN (MIN_KEYS - 1)..MAX_KEYS
    ELSE MIN_KEYS..MAX_KEYS

\* the child was at MIN_KEYS, or below it as a sibling can be, and lost one key
UnderflowFills(kind) ==
    {MIN_KEYS - 1} \cup {f - 1 : f \in {g \in SiblingFills(kind) : g < MIN_KEYS}}

\* the children's fills with child i (0-based) the one that lost a key
RebalanceCases ==
    UNION {{[kind |-> kind, fills |-> [fills EXCEPT ![i + 1] = u], i |-> i] :
               fills \in UNION {[1..nc -> SiblingFills(kind)] : nc \in 1..MaxSiblings},
               i \in 0..(MaxSiblings - 1),
               u \in UnderflowFills(kind)} :
           kind \in {"leaf", "interior"}}

\* a root with one child only has a leaf under it (a root left without a
\* key over an interior node is replaced by that node)
RebalanceCaseOk(c) ==
    /\ c.i < Len(c.fills)
    /\ c.kind = "interior" => Len(c.fills) > 1

\* keys are handed out in blocks of KeyBlock keys, one block per leaf
KeyBlock == MAX_KEYS + 2

RECURSIVE SumTo(_, _)
SumTo(fills, j) == IF j = 0 THEN 0 ELSE fills[j] + SumTo(fills, j - 1)

\* the number of leaves under the children before child j (1-based)
LeavesBefore(c, j) ==
    IF c.kind = "leaf" THEN j - 1 ELSE SumTo(c.fills, j - 1) + (j - 1)

\* the block of leaf g (0-based) of child j
BlockOf(j, g) == (j - 1) * KeyBlock + g

FirstKey(block) == block * KeyBlock + 1

\* a leaf of the chain: leaf number t of total, holding count keys of block
ChainLeaf(id, t, total, block, count) ==
    [LeafNode(IF t = 1 THEN None ELSE id - 1, IF t = total THEN None ELSE id + 1)
        EXCEPT !.entries = [e \in 1..count |-> Entry(block * KeyBlock + e, 1)]]

\* object 1 is the parent, objects 2..nc + 1 its children, then the leaves
\* under interior children, in key order
RebalanceHeap(c) ==
    LET nc == Len(c.fills)
        parent == InteriorNode([j \in 1..(nc - 1) |-> FirstKey(BlockOf(j + 1, 0))],
                               [j \in 1..nc |-> j + 1])
        leaves == LeavesBefore(c, nc + 1)
        Owner(t) == CHOOSE j \in 1..nc :
                        /\ LeavesBefore(c, j) < t
                        /\ t <= LeavesBefore(c, j + 1)
    IN  IF c.kind = "leaf"
        THEN [n \in 1..(nc + 1) |->
                 IF n = 1 THEN parent
                 ELSE ChainLeaf(n, n - 1, nc, BlockOf(n - 1, 0), c.fills[n - 1])]
        ELSE [n \in 1..(nc + 1 + leaves) |->
                 IF n = 1 THEN parent
                 ELSE IF n <= nc + 1
                 THEN InteriorNode(
                          [g \in 1..c.fills[n - 1] |-> FirstKey(BlockOf(n - 1, g))],
                          [g \in 1..(c.fills[n - 1] + 1) |->
                              nc + 1 + LeavesBefore(c, n - 1) + g])
                 ELSE LET t == n - nc - 1
                          j == Owner(t)
                      IN  ChainLeaf(n, t, leaves,
                                    BlockOf(j, t - 1 - LeavesBefore(c, j)),
                                    IF MIN_KEYS > 1 THEN MIN_KEYS ELSE 1)]

RebalanceInit ==
    /\ \E cfg \in TreeConfigs : impl = cfg[1] /\ ORDER = cfg[2]
    /\ \E c \in RebalanceCases :
          /\ RebalanceCaseOk(c)
          /\ heap = RebalanceHeap(c)
          /\ lastOp = [name |-> "underflow", present |-> TRUE, ev |-> {}, i |-> c.i]
    /\ root = 1
    /\ raised = "none"
    /\ shadow = <<>>
    /\ PagerInit
    /\ LockInit

\* self.rebalance_after_delete(i)
Rebalance ==
    /\ lastOp.name = "underflow"
    /\ \E r \in {rebalance_after_delete(heap, root, lastOp.i)} :
          /\ heap' = r.heap
          /\ raised' = IF IsRaise(r.status) THEN r.status ELSE "none"
          /\ lastOp' = [lastOp EXCEPT !.name = "rebalance", !.ev = r.ev]
    /\ UNCHANGED <<impl, ORDER, root, shadow>>

RebalanceNext ==
    Rebalance /\ UNCHANGED <<pagerVars, counterVars, lockVars, codec>>

RebalanceSpec == RebalanceInit /\ [][RebalanceNext]_vars

(***************************************************************************)
(* C32  Underflow repair follows the priority borrow-right, borrow-left,    *)
(* merge-with-right, merge-left-with-self: the repair returns; the parent   *)
(* loses a child only when no adjacent sibling holds more than MIN_KEYS     *)
(* keys; a borrow moves exactly one entry (or one key and child) from the   *)
(* sibling, leaves the parent's children as they were and replaces only     *)
(* the separator between the two nodes, with the value returned; a merge    *)
(* removes exactly that separator and the right node of the pair from the   *)
(* parent and joins the two nodes' contents in the left one.                *)
(***************************************************************************)
C32_RepairPriority ==
    [][lastOp'.name = "rebalance" =>
        LET p == heap[root]
            q == heap'[root]
            i == lastOp.i
            child == p.children[i + 1]
            hasR == i < Len(p.keys)
            hasL == i > 0
            R == IF hasR THEN p.children[i + 2] ELSE child
            L == IF hasL THEN p.children[i] ELSE child
            richR == hasR /\ Fill(heap, R) > MIN_KEYS
            richL == hasL /\ Fill(heap, L) > MIN_KEYS
            leaf == heap[child].leaf
            Others(S) == \A n \in (DOMAIN heap) \ S : heap'[n] = heap[n]
            \* to moves one key up from its sibling from
            Moved(to, from) ==
                /\ Fill(heap', to) = Fill(heap, to) + 1
                /\ Fill(heap', from) = Fill(heap, from) - 1
                /\ q.children = p.children
                /\ Len(q.keys) = Len(p.keys)
                /\ Others({root, to, from})
            \* left takes the contents of right, which leaves the parent
            Joined(left, right, sep) ==
                /\ q.keys = ListRemove(p.keys, sep - 1)
                /\ q.children = ListRemove(p.children, sep)
                /\ Len(q.keys) = Len(p.keys) - 1
                /\ Len(q.children) = Len(p.children) - 1
                /\ IF leaf
                   THEN heap'[left].entries =
                            heap[left].entries \o heap[right].entries
                   ELSE /\ heap'[left].keys =
                               heap[left].keys \o <<p.keys[sep]>> \o heap[right].keys
                        /\ heap'[left].children =
                               heap[left].children \o heap[right].children
        IN  /\ raised' = "none"
            /\ Len(q.children) < Len(p.children) => ~richR /\ ~richL
            /\ richR =>
                  /\ Moved(child, R)
                  /\ \A j \in 1..Len(p.keys) : j # i + 1 => q.keys[j] = p.keys[j]
                  /\ IF leaf
                     THEN /\ heap'[child].entries =
                                 Append(heap[child].entries, heap[R].entries[1])
                          /\ heap'[R].entries = Tail(heap[R].entries)
                          /\ q.keys[i + 1] = heap'[R].entries[1].key
                     ELSE /\ heap'[child].keys = Append(heap[child].keys, p.keys[i + 1])
                          /\ heap'[child].children =
                                 Append(heap[child].children, heap[R].children[1])
                          /\ heap'[R].keys = Tail(heap[R].keys)
                          /\ heap'[R].children = Tail(heap[R].children)
                          /\ q.keys[i + 1] = heap[R].keys[1]
            /\ (~richR /\ richL) =>
                  /\ Moved(child, L)
                  /\ \A j \in 1..Len(p.keys) : j # i => q.keys[j] = p.keys[j]
                  /\ IF leaf
                     THEN /\ heap'[child].entries =
                                 <<heap[L].entries[Len(heap[L].entries)]>>
                                     \o heap[child].entries
                          /\ heap'[L].entries =
                                 SubSeq(heap[L].entries, 1, Len(heap[L].entries) - 1)
                          /\ q.keys[i] = heap'[child].entries[1].key
                     ELSE /\ heap'[child].keys = <<p.keys[i]>> \o heap[child].keys
                          /\ heap'[child].children =
                                 <<heap[L].children[Len(heap[L].children)]>>
                                     \o heap[child].children
                          /\ heap'[L].keys =
                                 SubSeq(heap[L].keys, 1, Len(heap[L].keys) - 1)
                          /\ heap'[L].children =
                                 SubSeq(heap[L].children, 1, Len(heap[L].children) - 1)
                          /\ q.keys[i] = heap[L].keys[Len(heap[L].keys)]
            /\ (~richR /\ ~richL /\ hasR) => Joined(child, R, i + 1)
            /\ (~richR /\ ~richL /\ ~hasR /\ hasL) => Joined(L, child, i)
            /\ (~hasR /\ ~hasL) => heap' = heap
    ]_vars

\* an interior child between two siblings borrowed from its left sibling,
\* its right sibling being minimal
C32_Witness ==
    /\ lastOp.name = "rebalance"
    /\ lastOp.i = 1
    /\ raised = "none"
    /\ "interior_borrow_left" \in lastOp.ev
    /\ Len(heap[root].children) = 3
    /\ Fill(heap, heap[root].children[3]) <= MIN_KEYS

(***************************************************************************)
(* C33  read_page keeps working past the cache capacity: read_page of an    *)
(* in-bounds page returns the page's bytes also when the cache already      *)
(* holds CACHE_MAXSIZE other pages; the cache then holds at most            *)
(* CACHE_MAXSIZE pages, the page read being the most recent one.            *)
(***************************************************************************)
C33_ReadPastCapacity ==
    (pagerOp.name = "read_page" /\ ~SeekPageRaises(file, pagerOp.pageno)) =>
        /\ pagerOp.err = "none"
        /\ pagerOp.ret = file[pagerOp.pageno + 1]
        /\ Len(lru) <= CACHE_MAXSIZE
        /\ Len(lru) > 0
        /\ lru[Len(lru)][1] = pagerOp.pageno

(***************************************************************************)
(* C34  OverflowPage.write_start(data, offset) on a blank page stores a     *)
(* prefix of length_prefix(data) in payload bytes [offset, DATASIZE) only   *)
(* and keeps the payload exactly DATASIZE bytes long; it returns exactly    *)
(* the bytes that did not fit, and None when everything fits: the bytes     *)
(* stored followed by the bytes returned are the 4-byte big-endian length   *)
(* followed by data.  read_continue(offset, size) on that page returns      *)
(* bytes and a remaining count that sum to size.                            *)
(***************************************************************************)
C34_WriteStartSplit ==
    codec.name = "write_start" =>
        LET payload == codec.page.overflow_data.v
            d == BCat(BigEndian(BLen(codec.value), 4), codec.value)
            room == OverflowPage_DATASIZE - codec.offset
            stored == IF BLen(d) < room THEN BLen(d) ELSE room
            r == read_continue(codec.page, codec.offset, BLen(d))
        IN  /\ BLen(payload) = OverflowPage_DATASIZE
            /\ Norm(BTake(payload, codec.offset)) = Norm(Rep(0, codec.offset))
            /\ Norm(BDrop(payload, codec.offset + stored))
                  = Norm(Rep(0, OverflowPage_DATASIZE - codec.offset - stored))
            /\ codec.more = (BLen(d) > room)
            /\ ~codec.more => codec.rest = <<>>
            /\ Norm(BCat(BSlice(payload, codec.offset, codec.offset + stored),
                         codec.rest)) = Norm(d)
            /\ r.err = "none"
            /\ BLen(r.data) + r.togo = BLen(d)

(***************************************************************************)
(* The zero page byte by byte: a client that keeps its header fields in     *)
(* page 0 writes them with ZeroPage.pack and write_page(0, ...), and        *)
(* allocates and frees pages.  codec holds the bytes of page 0 before and   *)
(* after the last call.                                                     *)
(***************************************************************************)
\* the file holds at most MaxZeroPages pages
MaxZeroPages == 3

\* struct "Q" of a number below 2^32: four zero bytes, then its four bytes
BigEndian64(v) == BCat(Rep(0, 4), BigEndian(v, 4))

\* Pager.PAGE_FORMAT.pack(magic, n) with PAGE_FORMAT = Struct("!8sQ4080x")
PAGE_FORMAT_pack(magic, n) ==
    BCat(BCat(magic, BigEndian64(n)), Rep(0, PAGESIZE - 16))

\* Pager.ZERO_MAGIC, Pager.FREE_MAGIC
MagicBytes(magic) == IF magic = "ZERO" THEN ZeroPage_MAGIC ELSE FreePage_MAGIC

\* the bytes of page 0: Pager.__init__ wrote PAGE_FORMAT.pack(ZERO_MAGIC, 0)
ZeroBytes ==
    IF codec.name = "init" THEN PAGE_FORMAT_pack(ZeroPage_MAGIC, 0) ELSE codec.zero

\* the bytes of page 0 of the file f after a call of the Pager: a call that
\* writes page 0 writes a page made by PAGE_FORMAT.pack
ZeroAfter(f) ==
    IF f[1] = file[1] THEN ZeroBytes
    ELSE PAGE_FORMAT_pack(MagicBytes(f[1].magic), f[1].num)

\* ZeroPage(0, self.next_free_pageno, ...): the header the client keeps, with
\* the head of the free list as the Pager has it
ClientZeroPages ==
    {Page_new("ZeroPage", <<PyInt(0), PyInt(next_free_pageno), PyInt(h[1]),
                            PyInt(h[2]), PyInt(h[3]), PyBytes(d)>>).obj :
        h \in {<<0, 0, 0>>, <<3, 2, 22>>},
        d \in {Rep(0, 4070),
               BCat(BCat(BigEndian(3, 4), Literal(<<97, 98, 99>>)), Rep(0, 4063))}}

\* pager.write_page(0, zero_page.pack())
ZeroWrite(obj) ==
    \E p \in {pack(obj)} :
       /\ p.err = "none"
       /\ \E w \in {write_page(PagerState, 0,
                       [magic |-> "ZERO", num |-> obj.next_free_pageno.v,
                        rest |-> IF p.bytes = PAGE_FORMAT_pack(ZeroPage_MAGIC,
                                                  obj.next_free_pageno.v)
                                 THEN 0 ELSE 1,
                        size |-> BLen(p.bytes)])} :
             /\ SetPager(AfterCall(w))
             /\ codec' = [name |-> "write_page", commit |-> FALSE, err |-> w.err,
                          before |-> ZeroBytes,
                          zero |-> IF w.err = "none" THEN p.bytes ELSE ZeroBytes]

\* pager.alloc_page()
ZeroAlloc ==
    /\ next_free_pageno # 0 \/ Len(file) < MaxZeroPages
    /\ \E r \in {alloc_page(PagerState)} :
          /\ SetPager(AfterCall(r))
          /\ codec' = [name |-> "alloc_page", commit |-> next_free_pageno # 0,
                       err |-> r.err, before |-> ZeroBytes,
                       zero |-> ZeroAfter(r.file)]

\* pager.free_page(pageno) of a page that alloc_page returned
ZeroFree(pageno) ==
    /\ pageno < Len(file)
    /\ \E r \in {free_page(PagerState, pageno)} :
          /\ SetPager(AfterCall(r))
          /\ codec' = [name |-> "free_page", commit |-> TRUE,
                       err |-> r.err, before |-> ZeroBytes,
                       zero |-> ZeroAfter(r.file)]

ZeroFrame ==
    UNCHANGED <<treeVars, pagerOp, allocated, counterVars, lockVars>>

ZeroNext ==
    \/ \E obj \in ClientZeroPages : ZeroWrite(obj) /\ ZeroFrame
    \/ ZeroAlloc /\ ZeroFrame
    \/ \E pageno \in 1..(MaxZeroPages - 1) : ZeroFree(pageno) /\ ZeroFrame

ZeroSpec == PagerSpecInit /\ [][ZeroNext]_vars

(***************************************************************************)
(* C35  Committing a new free-list head changes only the next_free_pageno   *)
(* field of the zero page: after an alloc_page that reuses a page, and      *)
(* after free_page, the magic and root_pageno (bytes 0..11) and             *)
(* next_overflow_pageno, the current overflow pageno and offset and the     *)
(* in-page payload (bytes 16..4095) of page 0 hold the same bytes as before *)
(* the call, and next_free_pageno (bytes 12..15) is the new head.           *)
(***************************************************************************)
C35_ZeroPageFrame ==
    (codec.name \in {"alloc_page", "free_page"} /\ codec.commit
        /\ codec.err = "none") =>
        /\ BSlice(codec.zero, 0, 12) = BSlice(codec.before, 0, 12)
        /\ BDrop(codec.zero, 16) = BDrop(codec.before, 16)
        /\ BSlice(codec.zero, 12, 16) = BigEndian(next_free_pageno, 4)

\* any step of thread t: inside a method of the lock, into one, or out of
\* its with block
ThreadStep(t) ==
    \/ LockStep(t)
    \/ (LockEnter(t) \/ ReaderExit(t) \/ WriterExit(t) \/ LockReturn(t)) /\ LockFrame

\* t is inside a method of the lock and cannot go on: it waits for a lock
\* or for a notify()
Blocked(t) == ~At(t, "idle") /\ ~ENABLED ThreadStep(t)

\* t has been counted in by acquire_read and not yet counted out by
\* release_read
CountedReader(t) ==
    threads[t].pc \in {"ar_exit_write", "ar_exit_read", "reading",
                       "release_read", "rr_count"}

(***************************************************************************)
(* C36  ReadWriteLock is deadlock-free for non-nested use: whenever some    *)
(* thread is blocked, some thread that is not idle can take a step (so the  *)
(* blocked threads never depend on a new caller); the reader counter is     *)
(* the number of threads counted in as readers, and is never negative.      *)
(***************************************************************************)
C36_DeadlockFree ==
    /\ (\E t \in Threads : Blocked(t)) =>
          \E u \in Threads : ~At(u, "idle") /\ ENABLED ThreadStep(u)
    /\ reader_count = Cardinality({t \in Threads : CountedReader(t)})
    /\ reader_count >= 0

\* every thread is in the lock: a writer waits in wait_for for a reader
\* that is releasing, and a third thread waits for _read_lock
C36_Witness ==
    \E w, r, u \in Threads :
       /\ At(w, "aw_blocked")
       /\ At(r, "rr_count")
       /\ At(u, "acquire_read")
       /\ Blocked(w)
       /\ Blocked(u)
       /\ reader_count = 1

====
